---- MODULE Spec2Model ----
(***************************************************************************)
(* Model of the server-authoritative Tetris engine: the rule engine        *)
(* (TetrisSystem.ts), the state container (WorldState), the deterministic  *)
(* RNG (createRng) and the per-instance tick orchestration                 *)
(* (GameInstance.ts).                                                      *)
(*                                                                         *)
(* Conventions.  A 32-bit unsigned integer is a pair <<hi, lo>> of 16-bit  *)
(* halves (TLC integers are 32-bit signed).  The board is a sequence of    *)
(* BOARD_HEIGHT rows, each a sequence of BOARD_WIDTH cells; grid row y and *)
(* column x of the code are board[y + 1][x + 1].  A piece id "p<n>" is the *)
(* integer n.  null pieces are the record Null; a null lineClearFxRows is  *)
(* the empty sequence (the code never stores an empty array).              *)
(***************************************************************************)
EXTENDS Integers, Sequences, FiniteSets, TLC

----------------------------------------------------------------------------
(* Configuration: src/server/config/tetris.ts *)

BOARD_WIDTH == 10
BOARD_HEIGHT == 20
SPAWN_X == 3
SPAWN_Y == BOARD_HEIGHT
GRAVITY_BASE_MS == 800
GRAVITY_DECREASE_PER_LEVEL_MS == 60
GRAVITY_MIN_MS == 100
SOFT_DROP_INTERVAL_MS == 50
LINES_PER_LEVEL == 10
COMBO_WINDOW_MS == 5000
LINE_CLEAR_FLASH_MS == 180
MIN_DELTA_MS == 50
MAX_DELTA_MS == 500

\* a score table paying 200 instead of 300 for two lines
SCORE_PER_LINES_LINEAR(n) ==
  CASE n = 1 -> 100
    [] n = 2 -> 200
    [] n = 3 -> 500
    [] n = 4 -> 800
    [] OTHER -> 0

\* SCORE_PER_LINES[n] ?? 0
SCORE_PER_LINES(n) ==
  CASE n = 1 -> 100
    [] n = 2 -> 300
    [] n = 3 -> 500
    [] n = 4 -> 800
    [] OTHER -> 0

\* 1 + comboCount * COMBO_MULTIPLIER_PER_STACK (0.1), in tenths
ComboMultiplierTenths(comboCount) == 10 + comboCount

WALL_KICK_OFFSETS ==
  << <<0, 0>>, <<1, 0>>, <<-1, 0>>, <<2, 0>>, <<-2, 0>>, <<0, -1>> >>

----------------------------------------------------------------------------
(* 32-bit arithmetic on <<hi, lo>> pairs of 16-bit halves *)

TwoTo16 == 65536

RECURSIVE Xor16(_, _, _)
\* bitwise XOR of the low n bits of a and b
Xor16(a, b, n) ==
  IF n = 0 THEN 0
  ELSE (((a % 2) + (b % 2)) % 2) + 2 * Xor16(a \div 2, b \div 2, n - 1)

RECURSIVE Or16(_, _, _)
\* bitwise OR of the low n bits of a and b
Or16(a, b, n) ==
  IF n = 0 THEN 0
  ELSE (IF (a % 2) = 1 \/ (b % 2) = 1 THEN 1 ELSE 0) + 2 * Or16(a \div 2, b \div 2, n - 1)

Xor32(a, b) == << Xor16(a[1], b[1], 16), Xor16(a[2], b[2], 16) >>

\* a | k for a constant 0 <= k < 2^16
OrLow(a, k) == << a[1], Or16(a[2], k, 16) >>

RECURSIVE Pow2(_)
Pow2(n) == IF n = 0 THEN 1 ELSE 2 * Pow2(n - 1)

\* a >>> n for 0 < n < 16
Shr32(a, n) ==
  << a[1] \div Pow2(n), ((a[1] % Pow2(n)) * Pow2(16 - n)) + (a[2] \div Pow2(n)) >>

\* (a + b) >>> 0
Add32(a, b) ==
  LET lo == a[2] + b[2]
  IN  << (a[1] + b[1] + (lo \div TwoTo16)) % TwoTo16, lo % TwoTo16 >>

\* the 32-bit product of two 16-bit numbers, as <<hi, lo>>
Mul16(a, b) ==
  LET p1 == a * (b \div 256)
      p0 == a * (b % 256)
      m  == ((p1 % 256) * 256) + p0
  IN  << ((p1 \div 256) + (m \div TwoTo16)) % TwoTo16, m % TwoTo16 >>

\* Math.imul(a, b): the low 32 bits of the product
Imul(a, b) ==
  LET ll == Mul16(a[2], b[2])
      lh == Mul16(a[2], b[1])
      hl == Mul16(a[1], b[2])
  IN  << (ll[1] + lh[2] + hl[2]) % TwoTo16, ll[2] >>

----------------------------------------------------------------------------
(* createRng: src/server/util/time.ts (mulberry32) *)

MULBERRY_INC == << 27947, 31221 >>  \* 0x6d2b79f5

\* state = (state + 0x6d2b79f5) >>> 0
RngAdvance(state) == Add32(state, MULBERRY_INC)

\* t = Math.imul(t ^ (t >>> 15), t | 1)
RngMix1(t) == Imul(Xor32(t, Shr32(t, 15)), OrLow(t, 1))

\* t = (t + Math.imul(t ^ (t >>> 7), t | 61)) >>> 0
RngMix2(t) == Add32(t, Imul(Xor32(t, Shr32(t, 7)), OrLow(t, 61)))

\* the 32-bit pattern of t ^ (t >>> 14) computed by next() from the advanced state
RngMix3(t) == Xor32(t, Shr32(t, 14))
RngOutputBits(state) == RngMix3(RngMix2(RngMix1(state)))

\* Math.floor(next() * 7): next() is the SIGNED 32-bit value of the bit pattern
\* divided by 2^32 (the code applies no >>> 0 to t ^ (t >>> 14))
FloorTimes7(bits) ==
  LET u == ((7 * bits[1]) + ((7 * bits[2]) \div TwoTo16)) \div TwoTo16
  IN  IF bits[1] >= 32768 THEN u - 7 ELSE u

\* next() < 0, i.e. the sign bit of the output pattern is set
RngNextIsNegative(bits) == bits[1] >= 32768

\* randomPieceType: ((n % 7) + 7) % 7 + 1 with JavaScript's truncating %
RandomPieceType(bits) ==
  LET n == FloorTimes7(bits)
      jsmod == IF n >= 0 THEN n % 7 ELSE -((-n) % 7)
  IN  ((jsmod + 7) % 7) + 1

----------------------------------------------------------------------------
(* Piece catalog and collision: src/server/systems/TetrisSystem.ts *)

\* SHAPES[type][rotation + 1][localY + 1][localX + 1]
SHAPES ==
  <<
  << \* 1: I
     << <<0, 0, 0, 0>>, <<1, 1, 1, 1>>, <<0, 0, 0, 0>>, <<0, 0, 0, 0>> >>,
     << <<0, 1, 0, 0>>, <<0, 1, 0, 0>>, <<0, 1, 0, 0>>, <<0, 1, 0, 0>> >>,
     << <<0, 0, 0, 0>>, <<1, 1, 1, 1>>, <<0, 0, 0, 0>>, <<0, 0, 0, 0>> >>,
     << <<0, 0, 1, 0>>, <<0, 0, 1, 0>>, <<0, 0, 1, 0>>, <<0, 0, 1, 0>> >> >>,
  << \* 2: O
     << <<0, 1, 1, 0>>, <<0, 1, 1, 0>>, <<0, 0, 0, 0>>, <<0, 0, 0, 0>> >>,
     << <<0, 1, 1, 0>>, <<0, 1, 1, 0>>, <<0, 0, 0, 0>>, <<0, 0, 0, 0>> >>,
     << <<0, 1, 1, 0>>, <<0, 1, 1, 0>>, <<0, 0, 0, 0>>, <<0, 0, 0, 0>> >>,
     << <<0, 1, 1, 0>>, <<0, 1, 1, 0>>, <<0, 0, 0, 0>>, <<0, 0, 0, 0>> >> >>,
  << \* 3: T
     << <<0, 1, 0, 0>>, <<1, 1, 1, 0>>, <<0, 0, 0, 0>>, <<0, 0, 0, 0>> >>,
     << <<0, 1, 0, 0>>, <<0, 1, 1, 0>>, <<0, 1, 0, 0>>, <<0, 0, 0, 0>> >>,
     << <<0, 0, 0, 0>>, <<1, 1, 1, 0>>, <<0, 1, 0, 0>>, <<0, 0, 0, 0>> >>,
     << <<0, 1, 0, 0>>, <<1, 1, 0, 0>>, <<0, 1, 0, 0>>, <<0, 0, 0, 0>> >> >>,
  << \* 4: S
     << <<0, 1, 1, 0>>, <<1, 1, 0, 0>>, <<0, 0, 0, 0>>, <<0, 0, 0, 0>> >>,
     << <<0, 1, 0, 0>>, <<0, 1, 1, 0>>, <<0, 0, 1, 0>>, <<0, 0, 0, 0>> >>,
     << <<0, 0, 0, 0>>, <<0, 1, 1, 0>>, <<1, 1, 0, 0>>, <<0, 0, 0, 0>> >>,
     << <<1, 0, 0, 0>>, <<1, 1, 0, 0>>, <<0, 1, 0, 0>>, <<0, 0, 0, 0>> >> >>,
  << \* 5: Z
     << <<1, 1, 0, 0>>, <<0, 1, 1, 0>>, <<0, 0, 0, 0>>, <<0, 0, 0, 0>> >>,
     << <<0, 0, 1, 0>>, <<0, 1, 1, 0>>, <<0, 1, 0, 0>>, <<0, 0, 0, 0>> >>,
     << <<0, 0, 0, 0>>, <<1, 1, 0, 0>>, <<0, 1, 1, 0>>, <<0, 0, 0, 0>> >>,
     << <<0, 1, 0, 0>>, <<1, 1, 0, 0>>, <<1, 0, 0, 0>>, <<0, 0, 0, 0>> >> >>,
  << \* 6: J
     << <<1, 0, 0, 0>>, <<1, 1, 1, 0>>, <<0, 0, 0, 0>>, <<0, 0, 0, 0>> >>,
     << <<0, 1, 1, 0>>, <<0, 1, 0, 0>>, <<0, 1, 0, 0>>, <<0, 0, 0, 0>> >>,
     << <<0, 0, 0, 0>>, <<1, 1, 1, 0>>, <<0, 0, 1, 0>>, <<0, 0, 0, 0>> >>,
     << <<0, 1, 0, 0>>, <<0, 1, 0, 0>>, <<0, 1, 1, 0>>, <<0, 0, 0, 0>> >> >>,
  << \* 7: L
     << <<0, 0, 1, 0>>, <<1, 1, 1, 0>>, <<0, 0, 0, 0>>, <<0, 0, 0, 0>> >>,
     << <<0, 1, 0, 0>>, <<0, 1, 0, 0>>, <<0, 1, 1, 0>>, <<0, 0, 0, 0>> >>,
     << <<0, 0, 0, 0>>, <<1, 1, 1, 0>>, <<1, 0, 0, 0>>, <<0, 0, 0, 0>> >>,
     << <<0, 1, 1, 0>>, <<0, 1, 0, 0>>, <<0, 1, 0, 0>>, <<0, 0, 0, 0>> >> >>
  >>

\* a null activePiece / nextPiece
Null == [id |-> 0, type |-> 0, rotation |-> 0, x |-> 0, y |-> 0]

\* cells of the 4x4 mask that are filled, as <<lx, ly>>, per type and rotation
ShapeCells ==
  [t \in 1..7 |-> [r \in 0..3 |->
     {c \in (0..3) \X (0..3) : SHAPES[t][r + 1][c[2] + 1][c[1] + 1] = 1}]]

\* getPieceCells: board coordinates <<x, y>> occupied by the piece, bounds unchecked
GetPieceCells(piece) ==
  LET type == IF piece.type >= 1 /\ piece.type <= 7 THEN piece.type ELSE 1
  IN  {<<piece.x + c[1], piece.y + c[2]>> : c \in ShapeCells[type][piece.rotation % 4]}

\* collides with the spawn zone closed: cells above the playable rows count as blocked
CollidesAboveGrid(board, piece) ==
  \E c \in GetPieceCells(piece) :
    \/ c[1] < 0
    \/ c[1] >= BOARD_WIDTH
    \/ c[2] < 0
    \/ c[2] >= BOARD_HEIGHT
    \/ board[c[2] + 1][c[1] + 1] # 0

\* collides: out of bounds, or overlapping a filled cell inside the playable rows
Collides(board, piece) ==
  \E c \in GetPieceCells(piece) :
    \/ c[1] < 0
    \/ c[1] >= BOARD_WIDTH
    \/ c[2] < 0
    \/ (c[2] < BOARD_HEIGHT /\ board[c[2] + 1][c[1] + 1] # 0)

\* stackReachedTop: a filled cell in row BOARD_HEIGHT - 1
StackReachedTop(board) ==
  \E x \in 0..(BOARD_WIDTH - 1) : board[(BOARD_HEIGHT - 1) + 1][x + 1] # 0

\* Array(BOARD_WIDTH).fill(0)
EmptyRow == [x \in 1..BOARD_WIDTH |-> 0]

\* createEmptyBoard
CreateEmptyBoard == [y \in 1..BOARD_HEIGHT |-> EmptyRow]

\* the grid row indices 0 .. BOARD_HEIGHT - 1 in ascending order
RowIndices == [i \in 1..BOARD_HEIGHT |-> i - 1]

\* findFullRows: ascending grid indices of the rows with no empty cell
FindFullRows(board) ==
  LET IsFull(y) == /\ y < Len(board)
                   /\ Len(board[y + 1]) = BOARD_WIDTH
                   /\ \A x \in 1..BOARD_WIDTH : board[y + 1][x] # 0
  IN  SelectSeq(RowIndices, IsFull)

----------------------------------------------------------------------------
(* Movement: tryMove, tryRotate, softDrop *)

\* the candidate piece of tryMove
Moved(p, dx, dy) == [p EXCEPT !.x = p.x + dx, !.y = p.y + dy]

\* tryMove returns true
CanMove(s, dx, dy) ==
  /\ s.activePiece # Null
  /\ s.gameStatus = "RUNNING"
  /\ ~Collides(s.board, Moved(s.activePiece, dx, dy))

\* tryMove without the collision test
TryMoveUnchecked(s, dx, dy) ==
  IF s.activePiece # Null /\ s.gameStatus = "RUNNING"
  THEN [s EXCEPT !.activePiece = Moved(s.activePiece, dx, dy)]
  ELSE s

\* tryMove: the state after the call
TryMove(s, dx, dy) ==
  IF CanMove(s, dx, dy)
  THEN [s EXCEPT !.activePiece = Moved(s.activePiece, dx, dy)]
  ELSE s

\* the candidate piece of tryRotate for wall-kick offset number i
Kicked(p, i) ==
  [p EXCEPT !.rotation = (p.rotation + 1) % 4,
            !.x = p.x + WALL_KICK_OFFSETS[i][1],
            !.y = p.y + WALL_KICK_OFFSETS[i][2]]

\* the wall-kick offsets whose rotated piece does not collide
FreeKicks(s) ==
  {i \in 1..Len(WALL_KICK_OFFSETS) : ~Collides(s.board, Kicked(s.activePiece, i))}

\* tryRotate accepting the last free offset of the table instead of the first
LastFreeKick(s) == CHOOSE i \in FreeKicks(s) : \A j \in FreeKicks(s) : i >= j

\* index of the offset tryRotate accepts: the first free one in table order
FirstFreeKick(s) == CHOOSE i \in FreeKicks(s) : \A j \in FreeKicks(s) : i <= j

\* tryRotate returns true
CanRotate(s) ==
  /\ s.activePiece # Null
  /\ s.gameStatus = "RUNNING"
  /\ FreeKicks(s) # {}

\* tryRotate turning the piece in place when every wall-kick candidate collides
TryRotateForced(s) ==
  IF s.activePiece # Null /\ s.gameStatus = "RUNNING"
  THEN [s EXCEPT !.activePiece =
          IF FreeKicks(s) # {} THEN Kicked(s.activePiece, FirstFreeKick(s))
          ELSE Kicked(s.activePiece, 1)]
  ELSE s

\* tryRotate: the state after the call
TryRotate(s) ==
  IF CanRotate(s)
  THEN [s EXCEPT !.activePiece = Kicked(s.activePiece, FirstFreeKick(s))]
  ELSE s

\* softDrop
SoftDrop(s) == TryMove(s, 0, -1)

----------------------------------------------------------------------------
(* State container: createPiece, createInitialState, resetState, spawnNextPiece.
   A context c = [s, rng, ctr] carries the TetrisState s, the state of the rng
   object handed to the call, and the module-level pieceIdCounter. *)

\* createPiece with pieceIdCounter = ctr before the call: id is `p${++pieceIdCounter}`
CreatePiece(ctr, type, x, y) ==
  [id |-> ctr + 1, type |-> type, rotation |-> 0, x |-> x, y |-> y]

\* createInitialState(seed) with pieceIdCounter = ctr; two pieces are created
CreateInitialState(seed, ctr) ==
  LET r1 == RngAdvance(seed)
      r2 == RngAdvance(r1)
  IN  [gameStatus |-> "RUNNING",
       board |-> CreateEmptyBoard,
       activePiece |-> CreatePiece(ctr, RandomPieceType(RngOutputBits(r1)), SPAWN_X, SPAWN_Y),
       nextPiece |-> CreatePiece(ctr + 1, RandomPieceType(RngOutputBits(r2)), 0, 0),
       score |-> 0,
       level |-> 1,
       lines |-> 0,
       gravityAccumulatorMs |-> 0,
       gravityIntervalMs |-> GRAVITY_BASE_MS,
       softDropActive |-> FALSE,
       seed |-> seed,
       rngState |-> r2,
       lastLinesCleared |-> 0,
       lastLineClearTimeMs |-> 0,
       comboCount |-> 0,
       lineClearFxRows |-> <<>>,
       lineClearFxUntilMs |-> 0]

\* resetState leaving the pending line clear and its expiry in place
ResetKeepsFlash(s, seed, ctr) ==
  [CreateInitialState(seed, ctr) EXCEPT !.lineClearFxRows = s.lineClearFxRows,
                                        !.lineClearFxUntilMs = s.lineClearFxUntilMs]

\* resetState(state, seed): every field is copied from createInitialState(seed ?? state.seed)
ResetState(s, seed, ctr) == CreateInitialState(seed, ctr)

\* spawnNextPiece(state, rng)
\* if (!state.nextPiece) state.nextPiece = createNextPiece(rng)
EnsureNextPiece(c) ==
  IF c.s.nextPiece = Null
  THEN [s |-> [c.s EXCEPT !.nextPiece =
                 CreatePiece(c.ctr, RandomPieceType(RngOutputBits(RngAdvance(c.rng))), 0, 0)],
        rng |-> RngAdvance(c.rng), ctr |-> c.ctr + 1]
  ELSE c

\* the piece type spawnNextPiece clamps state.nextPiece.type to
ClampedType(type) == IF type >= 1 /\ type <= 7 THEN type ELSE 1

\* spawnNextPiece making the freshly drawn piece active instead of the look-ahead
SpawnFreshPiece(c) ==
  [s |-> [c.s EXCEPT
            !.nextPiece = CreatePiece(c.ctr + 1,
                                      RandomPieceType(RngOutputBits(RngAdvance(c.rng))), 0, 0),
            !.activePiece = CreatePiece(c.ctr,
                                        RandomPieceType(RngOutputBits(RngAdvance(c.rng))),
                                        SPAWN_X, SPAWN_Y)],
   rng |-> RngAdvance(c.rng),
   ctr |-> c.ctr + 2]

\* the rest of spawnNextPiece: the next piece becomes active, a new next piece is drawn
PromoteNextPiece(c) ==
  [s |-> [c.s EXCEPT
            !.nextPiece = CreatePiece(c.ctr + 1,
                                      RandomPieceType(RngOutputBits(RngAdvance(c.rng))), 0, 0),
            !.activePiece = CreatePiece(c.ctr, ClampedType(c.s.nextPiece.type),
                                        SPAWN_X, SPAWN_Y)],
   rng |-> RngAdvance(c.rng),
   ctr |-> c.ctr + 2]

SpawnNextPiece(c) == PromoteNextPiece(EnsureNextPiece(c))

----------------------------------------------------------------------------
(* Lock, line clear, scoring, finalize, hard drop, gravity *)

\* the combo counter applyLineClearScoring stores for a clear at nowMs
NewComboCount(s, nowMs) ==
  IF s.lastLineClearTimeMs > 0 /\ nowMs - s.lastLineClearTimeMs <= COMBO_WINDOW_MS
  THEN s.comboCount + 1
  ELSE 0

\* the points applyLineClearScoring returns: Math.round(basePoints * multiplier)
LineClearPoints(s, fullRowsCount, nowMs) ==
  (2 * SCORE_PER_LINES(fullRowsCount) * ComboMultiplierTenths(NewComboCount(s, nowMs)) + 10)
     \div 20

\* clampGravityMs
ClampGravityMs(ms, minMs, maxMs) ==
  LET m == IF maxMs < ms THEN maxMs ELSE ms
  IN  IF minMs > m THEN minMs ELSE m

\* applyLineClearScoring deriving the level from the line total before the clear
ApplyLineClearScoringStaleLevel(s, fullRowsCount, nowMs) ==
  [s EXCEPT
     !.lastLineClearTimeMs = nowMs,
     !.comboCount = NewComboCount(s, nowMs),
     !.score = s.score + LineClearPoints(s, fullRowsCount, nowMs),
     !.lines = s.lines + fullRowsCount,
     !.level = (s.lines \div LINES_PER_LEVEL) + 1]

\* applyLineClearScoring: the state after the call
ApplyLineClearScoring(s, fullRowsCount, nowMs) ==
  LET lines == s.lines + fullRowsCount
      level == (lines \div LINES_PER_LEVEL) + 1
  IN  [s EXCEPT
         !.lastLineClearTimeMs = nowMs,
         !.comboCount = NewComboCount(s, nowMs),
         !.score = s.score + LineClearPoints(s, fullRowsCount, nowMs),
         !.lines = lines,
         !.level = level,
         !.gravityIntervalMs =
            IF level > s.level
            THEN ClampGravityMs(GRAVITY_BASE_MS - level * GRAVITY_DECREASE_PER_LEVEL_MS,
                                GRAVITY_MIN_MS, GRAVITY_BASE_MS)
            ELSE s.gravityIntervalMs]

\* board[y][x] = p.type for one cell, guarded as in the merge loop
MergeCell(board, c, type) ==
  IF c[2] >= 0 /\ c[2] < BOARD_HEIGHT /\ c[1] >= 0 /\ c[1] < BOARD_WIDTH
  THEN [board EXCEPT ![c[2] + 1][c[1] + 1] = type]
  ELSE board

\* the merge loop over a set of cells
RECURSIVE MergeCells(_, _, _)
MergeCells(board, cells, type) ==
  IF cells = {} THEN board
  ELSE LET c == CHOOSE c \in cells : TRUE
       IN  MergeCells(MergeCell(board, c, type), cells \ {c}, type)

\* the board after the merge loop of mergeAndClearLines
MergePiece(board, p) == MergeCells(board, GetPieceCells(p), p.type)

\* mergeAndClearLines: the state after the call
\* the part of mergeAndClearLines after findFullRows: merged is the state with
\* the piece merged and activePiece null, fullRows the rows found full
StartLineClear(merged, fullRows, nowMs) ==
  IF Len(fullRows) = 0 THEN [merged EXCEPT !.lastLinesCleared = 0]
  ELSE [ApplyLineClearScoring([merged EXCEPT !.lastLinesCleared = Len(fullRows)],
                              Len(fullRows), nowMs) EXCEPT
          !.lineClearFxRows = fullRows,
          !.lineClearFxUntilMs = nowMs + LINE_CLEAR_FLASH_MS]

\* the full rows removed from the board at once, the flash still recorded
RemoveNow(s) ==
  LET NotFull(y) == \E x \in 1..BOARD_WIDTH : s.board[y + 1][x] = 0
      idx == SelectSeq(RowIndices, NotFull)
  IN  [s EXCEPT !.board = [i \in 1..BOARD_HEIGHT |->
                            IF i <= Len(idx) THEN s.board[idx[i] + 1] ELSE EmptyRow]]

\* mergeAndClearLines removing the full rows inside the lock
ClearLinesAtOnce(merged, nowMs) ==
  RemoveNow(StartLineClear(merged, FindFullRows(merged.board), nowMs))

\* findFullRows on the merged board, then scoring and the flash
ClearLines(merged, nowMs) == StartLineClear(merged, FindFullRows(merged.board), nowMs)

MergeAndClearLines(s, nowMs) ==
  IF s.activePiece = Null THEN s
  ELSE ClearLines([s EXCEPT !.board = MergePiece(s.board, s.activePiece),
                            !.activePiece = Null], nowMs)

\* a result record whose line count is read before the lock updated it
LineClearResultStale(s, fullRowsCount, nowMs) ==
  IF fullRowsCount = 0 THEN [linesCleared |-> 0, points |-> 0]
  ELSE [linesCleared |-> s.lastLinesCleared, points |-> LineClearPoints(s, fullRowsCount, nowMs)]

\* the LineClearResult mergeAndClearLines returns
LineClearResult(s, fullRowsCount, nowMs) ==
  IF fullRowsCount = 0 THEN [linesCleared |-> 0, points |-> 0]
  ELSE [linesCleared |-> fullRowsCount, points |-> LineClearPoints(s, fullRowsCount, nowMs)]

MergeResult(s, nowMs) ==
  LineClearResult(s,
                  IF s.activePiece = Null THEN 0
                  ELSE Len(FindFullRows(MergePiece(s.board, s.activePiece))),
                  nowMs)

\* lockPiece(state, rng, nowMs)
\* after a spawn: if (spawned && collides(board, spawned)) game over, piece cleared
GameOverIfCollides(c) ==
  IF c.s.activePiece # Null /\ Collides(c.s.board, c.s.activePiece)
  THEN [c EXCEPT !.s = [c.s EXCEPT !.gameStatus = "GAME_OVER", !.activePiece = Null]]
  ELSE c

\* lockPiece without the stackReachedTop test
AfterMergeNoTopCheck(c) ==
  IF Len(c.s.lineClearFxRows) > 0 THEN c
  ELSE GameOverIfCollides(SpawnNextPiece(c))

\* the part of lockPiece after mergeAndClearLines: c.s is the merged state
AfterMerge(c) ==
  IF Len(c.s.lineClearFxRows) > 0 THEN c
  ELSE IF StackReachedTop(c.s.board)
  THEN [c EXCEPT !.s = [c.s EXCEPT !.gameStatus = "GAME_OVER", !.activePiece = Null]]
  ELSE GameOverIfCollides(SpawnNextPiece(c))

LockPiece(c, nowMs) ==
  AfterMerge([c EXCEPT !.s = [MergeAndClearLines(c.s, nowMs) EXCEPT
                                !.gravityAccumulatorMs = 0]])

\* hardDrop moving the piece down by one row only
DropOneRow(s) == TryMove(s, 0, -1)

\* the loop `while (tryMove(state, 0, -1)) dy++` of hardDrop
RECURSIVE DropToBottom(_)
DropToBottom(s) ==
  IF CanMove(s, 0, -1)
  THEN DropToBottom([s EXCEPT !.activePiece = Moved(s.activePiece, 0, -1)])
  ELSE s

\* hardDrop(state, rng, nowMs)
HardDrop(c, nowMs) ==
  IF c.s.activePiece = Null \/ c.s.gameStatus # "RUNNING" THEN c
  ELSE LockPiece([c EXCEPT !.s = DropToBottom(c.s)], nowMs)

\* the rows left in the ascending order findFullRows produced
Unsorted(rows) == rows

\* the array [...rows].sort((a, b) => b - a)
RECURSIVE SortDescending(_)
SortDescending(rows) ==
  IF Len(rows) = 0 THEN <<>>
  ELSE LET i == CHOOSE i \in 1..Len(rows) :
                  /\ \A j \in 1..Len(rows) : rows[j] <= rows[i]
                  /\ \A j \in 1..(i - 1) : rows[j] < rows[i]
       IN  <<rows[i]>> \o
           SortDescending(SubSeq(rows, 1, i - 1) \o SubSeq(rows, i + 1, Len(rows)))

\* removeRow pushing a row sized by the board height instead of the width
RemoveRowWrongWidth(board, row) ==
  Append(SubSeq(board, 1, row) \o SubSeq(board, row + 2, Len(board)),
         [x \in 1..BOARD_HEIGHT |-> 0])

\* board.splice(row, 1); board.push(Array(BOARD_WIDTH).fill(0))
RemoveRow(board, row) ==
  Append(SubSeq(board, 1, row) \o SubSeq(board, row + 2, Len(board)), EmptyRow)

\* the removal loop of finalizeLineClear over the sorted rows
RECURSIVE RemoveRows(_, _)
RemoveRows(board, sorted) ==
  IF Len(sorted) = 0 THEN board
  ELSE LET row == Head(sorted)
       IN  RemoveRows(IF row < 0 \/ row >= BOARD_HEIGHT THEN board ELSE RemoveRow(board, row),
                      Tail(sorted))

\* while (board.length < BOARD_HEIGHT) board.push(empty row)
RECURSIVE PadBoard(_)
PadBoard(board) ==
  IF Len(board) < BOARD_HEIGHT THEN PadBoard(Append(board, EmptyRow)) ELSE board

\* finalizeLineClear removing the rows but leaving the pending record in place
FinalizeKeepsRecord(s) ==
  IF Len(s.lineClearFxRows) = 0 THEN s
  ELSE [s EXCEPT !.board = PadBoard(RemoveRows(s.board, SortDescending(s.lineClearFxRows)))]

\* finalizeLineClear dropping the pending record without removing the rows
FinalizeLeavesRows(s) ==
  IF Len(s.lineClearFxRows) = 0 THEN s
  ELSE [s EXCEPT !.lineClearFxRows = <<>>, !.lineClearFxUntilMs = 0]

\* finalizeLineClear(state)
FinalizeLineClear(s) ==
  IF Len(s.lineClearFxRows) = 0 THEN s
  ELSE [s EXCEPT !.board = PadBoard(RemoveRows(s.board, SortDescending(s.lineClearFxRows))),
                 !.lineClearFxRows = <<>>,
                 !.lineClearFxUntilMs = 0]

\* tickGravity letting a blocked piece rest where it is, without locking it
RECURSIVE GravityLoopNoLock(_, _, _)
GravityLoopNoLock(c, interval, nowMs) ==
  IF c.s.gravityAccumulatorMs >= interval
  THEN IF CanMove(c.s, 0, -1)
       THEN GravityLoopNoLock([c EXCEPT !.s = [c.s EXCEPT
                                 !.gravityAccumulatorMs = c.s.gravityAccumulatorMs - interval,
                                 !.activePiece = Moved(c.s.activePiece, 0, -1)]],
                              interval, nowMs)
       ELSE [c EXCEPT !.s = [c.s EXCEPT !.gravityAccumulatorMs = 0]]
  ELSE c

\* tickGravity going on with the loop after a lock: the accumulated time left
\* over moves the piece the lock spawned
RECURSIVE GravityLoopContinues(_, _, _)
GravityLoopContinues(c, interval, nowMs) ==
  IF c.s.gravityAccumulatorMs >= interval /\ c.s.activePiece # Null
       /\ c.s.gameStatus = "RUNNING"
  THEN IF CanMove(c.s, 0, -1)
       THEN GravityLoopContinues([c EXCEPT !.s = [c.s EXCEPT
                                    !.gravityAccumulatorMs = c.s.gravityAccumulatorMs - interval,
                                    !.activePiece = Moved(c.s.activePiece, 0, -1)]],
                                 interval, nowMs)
       ELSE GravityLoopContinues(
              AfterMerge([c EXCEPT !.s = MergeAndClearLines(
                            [c.s EXCEPT !.gravityAccumulatorMs =
                                          c.s.gravityAccumulatorMs - interval], nowMs)]),
              interval, nowMs)
  ELSE c

\* the while loop of tickGravity
RECURSIVE GravityLoop(_, _, _)
GravityLoop(c, interval, nowMs) ==
  IF c.s.gravityAccumulatorMs >= interval
  THEN IF CanMove(c.s, 0, -1)
       THEN GravityLoop([c EXCEPT !.s = [c.s EXCEPT
                           !.gravityAccumulatorMs = c.s.gravityAccumulatorMs - interval,
                           !.activePiece = Moved(c.s.activePiece, 0, -1)]],
                        interval, nowMs)
       ELSE LockPiece([c EXCEPT !.s = [c.s EXCEPT
                         !.gravityAccumulatorMs = c.s.gravityAccumulatorMs - interval]],
                      nowMs)
  ELSE c

\* tickGravity(state, deltaMs, rng, nowMs)
TickGravity(c, deltaMs, nowMs) ==
  IF c.s.gameStatus # "RUNNING" \/ c.s.activePiece = Null THEN c
  ELSE LET interval == IF c.s.softDropActive THEN SOFT_DROP_INTERVAL_MS
                       ELSE c.s.gravityIntervalMs
       IN  GravityLoop([c EXCEPT !.s = [c.s EXCEPT !.gravityAccumulatorMs =
                                          c.s.gravityAccumulatorMs + deltaMs]],
                       interval, nowMs)

----------------------------------------------------------------------------
(* GameInstance: src/server/game/GameInstance.ts.  An instance is the record
   [state, gameStarted]; the operators return [g |-> instance, ctr |-> counter]. *)

\* getRngSeed(state): rngState is always a finite number once the state is created
GetRngSeed(s) == s.rngState

\* new GameInstance(plot, playerId, seed) with pieceIdCounter = ctr
NewGameInstance(seed, ctr) ==
  [g |-> [state |-> CreateInitialState(seed, ctr), gameStarted |-> FALSE], ctr |-> ctr + 2]

\* GameInstance.setGameStarted()
SetGameStarted(g) == [g EXCEPT !.gameStarted = TRUE]

\* GameInstance.reset(seed) and the reset branch of handleAction (seed = state.seed)
ResetInstance(g, seed, ctr) ==
  [g |-> [state |-> ResetState(g.state, seed, ctr), gameStarted |-> FALSE], ctr |-> ctr + 2]

\* the state of the rng object is not written back to state.rngState
RngNotPersisted(c) == c

\* GameInstance.handleAction(action, softDropActive), Date.now() = nowMs
\* state.rngState = rngObj.getState()
PersistRng(c) == [c EXCEPT !.s = [c.s EXCEPT !.rngState = c.rng]]

\* the instance and the counter after a call that left the context c
Stored(g, c) == [g |-> [g EXCEPT !.state = c.s], ctr |-> c.ctr]

\* the action dispatch of handleAction on the state s (softDropActive already stored)
Dispatch(g, s, action, ctr, nowMs) ==
  IF Len(s.lineClearFxRows) > 0 THEN [g |-> [g EXCEPT !.state = s], ctr |-> ctr]
  ELSE IF s.gameStatus # "RUNNING" \/ action = "none" \/ action = "start"
  THEN [g |-> [g EXCEPT !.state = s], ctr |-> ctr]
  ELSE IF action = "left" THEN [g |-> [g EXCEPT !.state = TryMove(s, -1, 0)], ctr |-> ctr]
  ELSE IF action = "right" THEN [g |-> [g EXCEPT !.state = TryMove(s, 1, 0)], ctr |-> ctr]
  ELSE IF action = "rotate" THEN [g |-> [g EXCEPT !.state = TryRotate(s)], ctr |-> ctr]
  ELSE IF action = "hardDrop"
  THEN Stored(g, PersistRng(HardDrop([s |-> s, rng |-> GetRngSeed(s), ctr |-> ctr], nowMs)))
  ELSE [g |-> [g EXCEPT !.state = s], ctr |-> ctr]

HandleAction(g, action, softDropActive, ctr, nowMs) ==
  IF action = "reset" THEN ResetInstance(g, g.state.seed, ctr)
  ELSE Dispatch(g, [g.state EXCEPT !.softDropActive = softDropActive], action, ctr, nowMs)

\* the "spawn piece if none" and "emergency spawn" blocks of tick
SpawnIfNone(c) ==
  IF c.s.gameStatus = "RUNNING" /\ c.s.activePiece = Null
  THEN IF StackReachedTop(c.s.board)
       THEN [c EXCEPT !.s = [c.s EXCEPT !.gameStatus = "GAME_OVER"]]
       ELSE GameOverIfCollides(PersistRng(SpawnNextPiece(c)))
  ELSE c

\* the delta handed to gravity as it was passed to tick
UnclampedDeltaMs(deltaMs) == deltaMs

\* Math.min(500, Math.max(50, deltaMs))
EffectiveDeltaMs(deltaMs) ==
  LET lo == IF deltaMs > MIN_DELTA_MS THEN deltaMs ELSE MIN_DELTA_MS
  IN  IF lo < MAX_DELTA_MS THEN lo ELSE MAX_DELTA_MS

\* a tick without the soft-drop translate: soft drop is a faster gravity only
NoSoftDropStep(c) == c

\* the part of tick after the flash branch: spawn, soft drop, gravity, emergency spawn
\* "Soft drop: one row per tick when holding"
SoftDropStep(c) ==
  IF c.s.gameStatus = "RUNNING" /\ c.s.activePiece # Null /\ c.s.softDropActive
  THEN [c EXCEPT !.s = TryMove(c.s, 0, -1)]
  ELSE c

\* if (activePiece && gravityAccumulatorMs === 0) the accumulator starts at one interval
SeedAccumulator(c) ==
  IF c.s.activePiece # Null /\ c.s.gravityAccumulatorMs = 0
  THEN [c EXCEPT !.s = [c.s EXCEPT !.gravityAccumulatorMs =
                          IF c.s.softDropActive THEN 50
                          ELSE c.s.gravityIntervalMs]]
  ELSE c

\* tick without its "Emergency spawn" block
TickRunNoEmergencySpawn(s, deltaMs, ctr, nowMs) ==
  PersistRng(
    TickGravity(SeedAccumulator(SoftDropStep(
                  SpawnIfNone([s |-> s, rng |-> GetRngSeed(s), ctr |-> ctr]))),
                EffectiveDeltaMs(deltaMs), nowMs))

TickRun(s, deltaMs, ctr, nowMs) ==
  SpawnIfNone(PersistRng(
    TickGravity(SeedAccumulator(SoftDropStep(
                  SpawnIfNone([s |-> s, rng |-> GetRngSeed(s), ctr |-> ctr]))),
                EffectiveDeltaMs(deltaMs), nowMs)))

\* tick finalizing a pending line clear without waiting for lineClearFxUntilMs
TickNoFlashWait(g, deltaMs, ctr, nowMs) ==
  IF ~g.gameStarted THEN [g |-> g, ctr |-> ctr]
  ELSE Stored(g, TickRun(FinalizeLineClear(g.state), deltaMs, ctr, nowMs))

\* tick returning whenever a line clear is pending, expired or not
TickFlashNeverEnds(g, deltaMs, ctr, nowMs) ==
  IF ~g.gameStarted THEN [g |-> g, ctr |-> ctr]
  ELSE IF Len(g.state.lineClearFxRows) > 0 THEN [g |-> g, ctr |-> ctr]
  ELSE Stored(g, TickRun(FinalizeLineClear(g.state), deltaMs, ctr, nowMs))

\* GameInstance.tick(deltaMs), Date.now() = nowMs
Tick(g, deltaMs, ctr, nowMs) ==
  IF Len(g.state.board) # BOARD_HEIGHT \/ Len(g.state.board[1]) # BOARD_WIDTH
  THEN [g |-> g, ctr |-> ctr]
  ELSE IF ~g.gameStarted THEN [g |-> g, ctr |-> ctr]
  ELSE IF Len(g.state.lineClearFxRows) > 0 /\ nowMs < g.state.lineClearFxUntilMs
  THEN [g |-> g, ctr |-> ctr]
  ELSE Stored(g, TickRun(FinalizeLineClear(g.state), deltaMs, ctr, nowMs))

----------------------------------------------------------------------------
(* InputSystem: src/server/systems/InputSystem.ts.  controllerStates is the Map
   playerId -> [queue, softDropActive]; a player without an entry is not in its
   domain. *)

\* { queue: [], softDropActive: false }
EmptyInputState == [queue |-> <<>>, softDropActive |-> FALSE]

\* getOrCreateState(playerId): the map after the call
GetOrCreateState(cs, playerId) ==
  IF playerId \in DOMAIN cs THEN cs
  ELSE [q \in DOMAIN cs \cup {playerId} |-> IF q = playerId THEN EmptyInputState ELSE cs[q]]

\* pushAction queueing the press and release of soft drop like any action
PushAllQueued(cs, playerId, action) == [cs EXCEPT ![playerId].queue = Append(@, action)]

\* the body of pushAction on the map that holds an entry for playerId
PushInto(cs, playerId, action) ==
  IF action = "softDropDown" THEN [cs EXCEPT ![playerId].softDropActive = TRUE]
  ELSE IF action = "softDropUp" THEN [cs EXCEPT ![playerId].softDropActive = FALSE]
  ELSE [cs EXCEPT ![playerId].queue = Append(@, action)]

\* pushAction(playerId, action): the map after the call
PushAction(cs, playerId, action) == PushInto(GetOrCreateState(cs, playerId), playerId, action)

\* consumeInput returning the newest queued action instead of the oldest
ShiftNewest(cs, playerId) ==
  IF Len(cs[playerId].queue) = 0
  THEN [cs |-> cs, action |-> "none", softDropActive |-> cs[playerId].softDropActive]
  ELSE [cs |-> [cs EXCEPT ![playerId].queue = SubSeq(@, 1, Len(@) - 1)],
        action |-> cs[playerId].queue[Len(cs[playerId].queue)],
        softDropActive |-> cs[playerId].softDropActive]

\* s.queue.shift() ?? null and the value returned, on the map that holds an entry
Shift(cs, playerId) ==
  IF Len(cs[playerId].queue) = 0
  THEN [cs |-> cs, action |-> "none", softDropActive |-> cs[playerId].softDropActive]
  ELSE [cs |-> [cs EXCEPT ![playerId].queue = Tail(@)],
        action |-> Head(cs[playerId].queue),
        softDropActive |-> cs[playerId].softDropActive]

\* consumeInput(playerId): the map after the call and the value returned
ConsumeInput(cs, playerId) == Shift(GetOrCreateState(cs, playerId), playerId)

\* clearPlayer(playerId): controllerStates.delete(playerId)
ClearPlayer(cs, playerId) == [q \in DOMAIN cs \ {playerId} |-> cs[q]]

----------------------------------------------------------------------------
(* PlotManager: src/server/plots/PlotManager.ts.  plots[i] is the assignedPlayerId
   of plot_(i-1), "" when undefined; playerToPlot is the Map playerId -> plot,
   the plot given by its index; pm = [plots, playerToPlot]. *)

PLOT_COUNT == 8

\* initPlots: PLOT_COUNT plots, none assigned
InitPlots == [i \in 1..PLOT_COUNT |-> ""]

\* plots.find((p) => !p.assignedPlayerId): indices of the candidates
FreePlots(plots) == {i \in 1..Len(plots) : plots[i] = ""}

\* the first free plot
FirstFreePlot(plots) == CHOOSE i \in FreePlots(plots) : \A j \in FreePlots(plots) : i <= j

\* the assignment of assignPlot: plot i goes to playerId
Assigned(pm, playerId, i) ==
  [pm |-> [plots |-> [pm.plots EXCEPT ![i] = playerId],
           playerToPlot |-> [q \in DOMAIN pm.playerToPlot \cup {playerId} |->
                               IF q = playerId THEN i - 1 ELSE pm.playerToPlot[q]]],
   plot |-> i - 1]

\* assignPlot taking a plot without looking at assignedPlayerId
AssignFirstPlot(pm, playerId) ==
  IF playerId \in DOMAIN pm.playerToPlot
  THEN [pm |-> pm, plot |-> pm.playerToPlot[playerId]]
  ELSE Assigned(pm, playerId, 1)

\* assignPlot(playerId): the manager after the call and the plot returned (-1: null)
AssignPlot(pm, playerId) ==
  IF playerId \in DOMAIN pm.playerToPlot
  THEN [pm |-> pm, plot |-> pm.playerToPlot[playerId]]
  ELSE IF FreePlots(pm.plots) = {} THEN [pm |-> pm, plot |-> -1]
  ELSE Assigned(pm, playerId, FirstFreePlot(pm.plots))

\* releasePlot(playerId): the manager after the call
ReleasePlot(pm, playerId) ==
  IF playerId \notin DOMAIN pm.playerToPlot THEN pm
  ELSE [plots |-> [pm.plots EXCEPT ![pm.playerToPlot[playerId] + 1] = ""],
        playerToPlot |-> [q \in DOMAIN pm.playerToPlot \ {playerId} |-> pm.playerToPlot[q]]]

----------------------------------------------------------------------------
(* The environment: the callers of the instances' methods and the clock *)

VARIABLES
  games,           \* instance name -> [state, gameStarted]
  pieceIdCounter,  \* process -> the module-level pieceIdCounter of WorldState
  now,             \* Date.now()
  lastOp,          \* the call made last (history)
  steps,           \* number of calls made so far (bounds the exploration)
  controllerStates,\* the Map controllerStates of InputSystem
  inputLog,        \* player -> the actions queued and the actions consumed (history)
  plots,           \* the assignedPlayerId of each plot of PlotManager
  playerToPlot     \* the Map playerToPlot of PlotManager

vars == <<games, pieceIdCounter, now, lastOp, steps,
          controllerStates, inputLog, plots, playerToPlot>>

\* the state of the input queues and of the plot manager
serverVars == <<controllerStates, inputLog, plots, playerToPlot>>

\* the ids of the players that may connect
PlayerIds == <<"p1", "p2", "p3", "p4", "p5", "p6", "p7", "p8", "p9", "p10", "p11", "p12">>

\* the players whose input is followed
InputPlayers == {PlayerIds[1], PlayerIds[2]}

\* nothing queued yet
EmptyLog == [p \in InputPlayers |-> [pushed |-> <<>>, consumed |-> <<>>]]

\* no player has sent input or joined: the maps are empty, initPlots has run
ServerStart ==
  /\ controllerStates = [q \in {} |-> EmptyInputState]
  /\ inputLog = EmptyLog
  /\ plots = InitPlots
  /\ playerToPlot = [q \in {} |-> 0]

\* bounds of the exploration
MaxSteps == 3
MaxSeed == 1

\* the pinned seeds instances are constructed with, as <<hi, lo>>
Seeds == {<<0, lo>> : lo \in 0..MaxSeed}

\* the discrete actions consumed from the input queue ("none" is null)
Actions == {"none", "start", "left", "right", "rotate", "hardDrop", "reset"}

\* deltaMs values passed to tick, and advances of Date.now() between two ticks
Deltas == {0, 1000}
ClockAdvances == {0, 200, 6000}
StartTime == 1000

\* the calls: handleAction(action, soft), tick(delta), setGameStarted(true), reset()
ActionOp(a, soft) == [kind |-> "handleAction", action |-> a, soft |-> soft, delta |-> 0]
TickOp(d) == [kind |-> "tick", action |-> "none", soft |-> FALSE, delta |-> d]
StartOp == [kind |-> "setGameStarted", action |-> "none", soft |-> FALSE, delta |-> 0]
ResetOp == [kind |-> "reset", action |-> "none", soft |-> FALSE, delta |-> 0]
NoOp == [kind |-> "new", action |-> "none", soft |-> FALSE, delta |-> 0]

\* instances "S" and "T" run in process 2; all others share process 1
ProcOf(i) == IF i \in {"S", "T"} THEN 2 ELSE 1

\* an operation on one instance: its result [g, ctr]
Apply(op, g, ctr, nowMs) ==
  CASE op.kind = "handleAction" -> HandleAction(g, op.action, op.soft, ctr, nowMs)
    [] op.kind = "tick" -> Tick(g, op.delta, ctr, nowMs)
    [] op.kind = "setGameStarted" -> [g |-> SetGameStarted(g), ctr |-> ctr]
    [] op.kind = "reset" -> ResetInstance(g, g.state.seed, ctr)

\* the world [games, ctr] after instance i performed op
Put(w, i, r) ==
  [games |-> [w.games EXCEPT ![i] = r.g], ctr |-> [w.ctr EXCEPT ![ProcOf(i)] = r.ctr]]

Do(w, i, op, nowMs) == Put(w, i, Apply(op, w.games[i], w.ctr[ProcOf(i)], nowMs))

\* the world after each instance of the sequence ts performed op, in order
RECURSIVE DoAll(_, _, _, _)
DoAll(w, ts, op, nowMs) ==
  IF Len(ts) = 0 THEN w ELSE DoAll(Do(w, Head(ts), op, nowMs), Tail(ts), op, nowMs)

\* one call of op on the instances ts, the clock having advanced by adv
Call(ts, op, adv) ==
  /\ \E w \in {DoAll([games |-> games, ctr |-> pieceIdCounter], ts, op, now + adv)} :
       /\ games' = w.games
       /\ pieceIdCounter' = w.ctr
  /\ now' = now + adv
  /\ lastOp' = op
  /\ steps' = steps + 1
  /\ UNCHANGED serverVars

\* the input queue hands one action and the soft-drop flag to handleAction
HandleActionStep(ts) ==
  \E a \in Actions, soft \in BOOLEAN :
    /\ steps < MaxSteps
    /\ Call(ts, ActionOp(a, soft), 0)

\* the game loop calls tick
TickStep(ts) ==
  \E d \in Deltas, adv \in ClockAdvances :
    /\ steps < MaxSteps
    /\ Call(ts, TickOp(d), adv)

\* the first player input starts the round: setGameStarted()
StartStep(ts) ==
  /\ steps < MaxSteps
  /\ Call(ts, StartOp, 0)

\* GameInstance.reset() (the /reset command)
ResetStep(ts) ==
  /\ steps < MaxSteps
  /\ Call(ts, ResetOp, 0)

Step(ts) == HandleActionStep(ts) \/ TickStep(ts) \/ StartStep(ts) \/ ResetStep(ts)

----------------------------------------------------------------------------
(* Play histories.  A script is a sequence of calls made on a freshly constructed
   instance at time StartTime; the state it leads to is computed by the
   operators above. *)

\* the call a script entry stands for
ScriptOp(e) ==
  CASE e = "start" -> StartOp
    [] e = "softOn" -> ActionOp("none", TRUE)
    [] e = "tick" -> TickOp(1000)
    [] OTHER -> ActionOp(e, FALSE)

\* the world holding the single instance "A", freshly constructed
NewWorld(seed) ==
  [games |-> [i \in {"A"} |-> NewGameInstance(seed, 0).g],
   ctr |-> [p \in {1} |-> NewGameInstance(seed, 0).ctr]]

RECURSIVE Replay(_, _)
Replay(w, script) ==
  IF w.ctr[1] > 0 /\ Len(script) = 0 THEN w
  ELSE Replay(Do(w, "A", ScriptOp(Head(script)), StartTime), Tail(script))

\* seed 0: leaves a vertical I piece over the empty column 0, the 1 bottom row otherwise full
Clear1Script ==
  <<"rotate", "rotate", "right", "hardDrop", "rotate", "rotate", "left", "hardDrop", "rotate",
    "rotate", "right", "right", "right", "right", "hardDrop", "rotate", "rotate", "rotate",
    "left", "left", "left", "hardDrop", "rotate", "rotate", "right", "right", "right",
    "hardDrop", "rotate", "left", "hardDrop", "rotate", "rotate", "rotate", "hardDrop",
    "rotate", "rotate", "rotate", "right", "right", "right", "right", "hardDrop", "rotate",
    "left", "left", "left", "left">>

\* seed 1: leaves a vertical I piece over the empty column 9, the 2 bottom rows otherwise full
Clear2Script ==
  <<"left", "left", "left", "hardDrop", "rotate", "rotate", "right", "right", "right",
    "hardDrop", "rotate", "rotate", "rotate", "right", "right", "hardDrop", "rotate", "left",
    "hardDrop", "left", "left", "hardDrop", "rotate", "left", "left", "left", "left",
    "hardDrop", "rotate", "rotate", "rotate", "right", "hardDrop", "rotate", "right", "right",
    "right", "hardDrop", "rotate", "rotate", "rotate", "left", "left", "hardDrop", "rotate",
    "right", "right", "right", "right", "right">>

\* seed 4: leaves a vertical I piece over the empty column 9, the 3 bottom rows otherwise full
Clear3Script ==
  <<"left", "left", "left", "hardDrop", "rotate", "rotate", "rotate", "right", "right", "right",
    "hardDrop", "rotate", "rotate", "hardDrop", "rotate", "rotate", "rotate", "right", "right",
    "hardDrop", "hardDrop", "rotate", "left", "left", "left", "left", "hardDrop", "rotate",
    "rotate", "rotate", "right", "right", "right", "hardDrop", "rotate", "left", "left", "left",
    "hardDrop", "rotate", "right", "right", "hardDrop", "rotate", "rotate", "left", "left",
    "left", "hardDrop", "left", "hardDrop", "rotate", "rotate", "left", "hardDrop", "left",
    "left", "left", "left", "hardDrop", "rotate", "right", "right", "right", "right", "right">>

\* seed 4: leaves a vertical I piece over the empty column 0, the 4 bottom rows otherwise full
Clear4Script ==
  <<"left", "hardDrop", "rotate", "rotate", "rotate", "left", "left", "left", "hardDrop",
    "rotate", "left", "left", "hardDrop", "rotate", "rotate", "right", "right", "right",
    "right", "hardDrop", "rotate", "right", "hardDrop", "rotate", "rotate", "rotate", "right",
    "right", "hardDrop", "rotate", "rotate", "rotate", "right", "right", "right", "right",
    "hardDrop", "rotate", "rotate", "rotate", "hardDrop", "rotate", "right", "right", "right",
    "hardDrop", "rotate", "right", "right", "right", "right", "hardDrop", "rotate", "rotate",
    "rotate", "left", "left", "left", "hardDrop", "rotate", "rotate", "rotate", "right",
    "hardDrop", "left", "left", "hardDrop", "rotate", "left", "left", "left", "left">>

\* seed 1: the active piece, dropped straight down, completes row 17 and reaches row 19
TopClearScript ==
  <<"left", "hardDrop", "right", "hardDrop", "rotate", "right", "right", "hardDrop", "right",
    "right", "right", "right", "hardDrop", "right", "right", "hardDrop", "rotate", "rotate",
    "hardDrop", "left", "left", "hardDrop", "rotate", "right", "right", "right", "hardDrop",
    "rotate", "rotate", "right", "right", "right", "right", "hardDrop", "rotate", "rotate",
    "right", "hardDrop", "rotate", "rotate", "left", "left", "hardDrop", "right", "right",
    "right", "right", "hardDrop", "rotate", "rotate", "left", "left", "hardDrop", "left",
    "left", "left", "left", "hardDrop", "left", "hardDrop", "right", "hardDrop", "right",
    "right", "right", "right", "hardDrop", "rotate", "right", "right">>

\* seed 0: pieces stacked in the spawn columns; the next one locks in row 19
TopOutScript ==
  <<"hardDrop", "hardDrop", "hardDrop", "hardDrop", "hardDrop", "hardDrop", "hardDrop",
    "hardDrop", "hardDrop", "hardDrop">>

\* calls appended to a script: the game is started and soft drop is held
Started == <<"start", "softOn">>
StartedFalling == <<"start", "softOn", "tick">>

\* the play histories exploration starts from: [seed, script]
Histories ==
  {[seed |-> seed, script |-> <<>>] : seed \in Seeds}
    \cup {[seed |-> <<0, 0>>, script |-> StartedFalling],
          [seed |-> <<0, 0>>, script |-> Clear1Script],
          [seed |-> <<0, 0>>, script |-> Clear1Script \o StartedFalling],
          [seed |-> <<0, 1>>, script |-> Clear2Script],
          [seed |-> <<0, 1>>, script |-> Clear2Script \o StartedFalling],
          [seed |-> <<0, 4>>, script |-> Clear3Script],
          [seed |-> <<0, 4>>, script |-> Clear3Script \o StartedFalling],
          [seed |-> <<0, 4>>, script |-> Clear4Script],
          [seed |-> <<0, 4>>, script |-> Clear4Script \o StartedFalling],
          [seed |-> <<0, 0>>, script |-> TopOutScript],
          [seed |-> <<0, 0>>, script |-> TopOutScript \o Started],
          [seed |-> <<0, 1>>, script |-> TopClearScript],
          [seed |-> <<0, 1>>, script |-> TopClearScript \o Started]}

\* the worlds the play histories lead to
Worlds == {Replay(NewWorld(h.seed), h.script) : h \in Histories}

\* one instance, after one of the play histories
Init ==
  \E w \in Worlds :
    /\ games = w.games
    /\ pieceIdCounter = w.ctr
    /\ now = StartTime
    /\ lastOp = NoOp
    /\ steps = 0
    /\ ServerStart

Next == Step(<<"A">>)

Spec == Init /\ [][Next]_vars

----------------------------------------------------------------------------
(* Two runs in one process: instances "A" and "B" are constructed one after the
   other with the same seed and receive the same calls at the same times. *)

\* the world after constructing the instances named in order, in their processes
RECURSIVE Construct(_, _, _)
Construct(w, order, seedOf) ==
  IF Len(order) = 0 THEN w
  ELSE Construct(Put(w, Head(order),
                     NewGameInstance(seedOf[Head(order)], w.ctr[ProcOf(Head(order))])),
                 Tail(order), seedOf)

\* no instance constructed yet: pieceIdCounter is 0 in both processes
EmptyWorld(names) == [games |-> [i \in names |-> Null], ctr |-> [p \in {1, 2} |-> 0]]

InitSameSeed ==
  \E seed \in Seeds :
    \E w \in {Construct(EmptyWorld({"A", "B"}), <<"A", "B">>, [i \in {"A", "B"} |-> seed])} :
      /\ games = w.games
      /\ pieceIdCounter = w.ctr
      /\ now = StartTime
      /\ lastOp = NoOp
      /\ steps = 0
      /\ ServerStart

NextSameSeed == Step(<<"A", "B">>)

SpecSameSeed == InitSameSeed /\ [][NextSameSeed]_vars

----------------------------------------------------------------------------
(* Two games side by side.  Process 1 holds the instances "B" and "A"; process 2
   holds "S" and "T", constructed the same way with the same seeds.  S receives
   every call B receives; T is never called: S is B alone. *)

InitSideBySide ==
  \E w \in {Construct(EmptyWorld({"A", "B", "S", "T"}), <<"B", "A", "S", "T">>,
                      [i \in {"A", "B", "S", "T"} |->
                         IF i \in {"A", "T"} THEN <<0, 1>> ELSE <<0, 0>>])} :
    /\ games = w.games
    /\ pieceIdCounter = w.ctr
    /\ now = StartTime
    /\ lastOp = NoOp
    /\ steps = 0
    /\ ServerStart

NextSideBySide == Step(<<"A">>) \/ Step(<<"B", "S">>)

SpecSideBySide == InitSideBySide /\ [][NextSideBySide]_vars

----------------------------------------------------------------------------
(* Clearing locks at caller-supplied timestamps: applyLineClearScoring is applied
   to the state of instance "A" with a row count and a timestamp chosen by the
   caller.  The clock starts at 0 and `now` is the timestamp of the last call. *)

\* the time that passes between two clearing locks
ScoreAdvances == {0, 1, 4999, 5000, 5001}

\* the call applyLineClearScoring(state, fullRowsCount, nowMs); delta holds fullRowsCount
ScoreOp(n) == [kind |-> "applyLineClearScoring", action |-> "none", soft |-> FALSE, delta |-> n]

InitScoring ==
  \E w \in {NewWorld(<<0, 0>>)} :
    /\ games = w.games
    /\ pieceIdCounter = w.ctr
    /\ now = 0
    /\ lastOp = NoOp
    /\ steps = 0
    /\ ServerStart

\* a lock that completed n rows is scored at the timestamp now + adv
ScoreStep ==
  \E n \in 1..4, adv \in ScoreAdvances :
    /\ steps < MaxSteps
    /\ games' = [games EXCEPT !["A"].state = ApplyLineClearScoring(@, n, now + adv)]
    /\ now' = now + adv
    /\ lastOp' = ScoreOp(n)
    /\ steps' = steps + 1
    /\ UNCHANGED <<pieceIdCounter, serverVars>>

\* a clearing lock is scored, or the game is reset
NextScoring == ScoreStep \/ ResetStep(<<"A">>)

SpecScoring == InitScoring /\ [][NextScoring]_vars

----------------------------------------------------------------------------
(* The input queues: the UI pushes actions for a player, the game loop consumes
   one per tick, a player who leaves is cleared.  The game itself stands still. *)

\* a player queues at most MaxInputs discrete actions
MaxInputs == 3

\* the actions the UI sends
Pushable == {"left", "right", "softDropDown", "softDropUp"}

\* the actions pushAction appends to the queue
Queued(action) == action \notin {"softDropDown", "softDropUp"}

\* the calls of InputSystem
InputOp(kind, playerId, action, soft) ==
  [kind |-> kind, player |-> playerId, action |-> action, soft |-> soft, delta |-> 0]

\* the queue of a player ([] when the map has no entry)
QueueOf(cs, playerId) == IF playerId \in DOMAIN cs THEN cs[playerId].queue ELSE <<>>

\* a fresh game, standing still; no input yet
InitInput ==
  \E w \in {NewWorld(<<0, 0>>)} :
    /\ games = w.games
    /\ pieceIdCounter = w.ctr
    /\ now = StartTime
    /\ lastOp = NoOp
    /\ steps = 0
    /\ ServerStart

\* index.ts: a UI event of the player calls pushAction
PushStep ==
  \E playerId \in InputPlayers, action \in Pushable :
    /\ Queued(action) => Len(inputLog[playerId].pushed) < MaxInputs
    /\ controllerStates' = PushAction(controllerStates, playerId, action)
    /\ inputLog' = IF Queued(action)
                   THEN [inputLog EXCEPT ![playerId].pushed = Append(@, action)]
                   ELSE inputLog
    /\ lastOp' = InputOp("pushAction", playerId, action, FALSE)
    /\ UNCHANGED <<games, pieceIdCounter, now, steps, plots, playerToPlot>>

\* the game loop calls consumeInput once in a tick
ConsumeStep ==
  \E playerId \in InputPlayers :
    \E r \in {ConsumeInput(controllerStates, playerId)} :
      /\ controllerStates' = r.cs
      /\ inputLog' = IF r.action # "none"
                     THEN [inputLog EXCEPT ![playerId].consumed = Append(@, r.action)]
                     ELSE inputLog
      /\ lastOp' = InputOp("consumeInput", playerId, r.action, r.softDropActive)
      /\ UNCHANGED <<games, pieceIdCounter, now, steps, plots, playerToPlot>>

\* index.ts: the player left, clearPlayer drops the entry and what was queued
ClearStep ==
  \E playerId \in InputPlayers :
    /\ playerId \in DOMAIN controllerStates
    /\ controllerStates' = ClearPlayer(controllerStates, playerId)
    /\ inputLog' = [inputLog EXCEPT ![playerId] = [pushed |-> <<>>, consumed |-> <<>>]]
    /\ lastOp' = InputOp("clearPlayer", playerId, "none", FALSE)
    /\ UNCHANGED <<games, pieceIdCounter, now, steps, plots, playerToPlot>>

NextInput == PushStep \/ ConsumeStep \/ ClearStep

SpecInput == InitInput /\ [][NextInput]_vars

----------------------------------------------------------------------------
(* The plots: players join (assignPlot) and leave (releasePlot) a server that
   already holds some players.  The game itself stands still. *)

\* the number of players who join and leave at will, and of players already in
MaxJoiners == 3
MaxResidents == 6

Joiners == {PlayerIds[i] : i \in 1..MaxJoiners}
Residents == [i \in 1..MaxResidents |-> PlayerIds[MaxJoiners + i]]

\* the manager after the players of the sequence joined in order
RECURSIVE JoinAll(_, _)
JoinAll(pm, players) ==
  IF Len(players) = 0 THEN pm
  ELSE JoinAll(AssignPlot(pm, Head(players)).pm, Tail(players))

\* the calls of PlotManager, with the plot assignPlot returned (-1: null)
PlotOp(kind, playerId, plot) == [kind |-> kind, player |-> playerId, plot |-> plot]

\* the residents have joined one after the other
InitPlotsJoined ==
  \E w \in {NewWorld(<<0, 0>>)} :
    \E pm \in {JoinAll([plots |-> InitPlots, playerToPlot |-> [q \in {} |-> 0]], Residents)} :
      /\ games = w.games
      /\ pieceIdCounter = w.ctr
      /\ now = StartTime
      /\ lastOp = NoOp
      /\ steps = 0
      /\ controllerStates = [q \in {} |-> EmptyInputState]
      /\ inputLog = EmptyLog
      /\ plots = pm.plots
      /\ playerToPlot = pm.playerToPlot

\* a player joins the world: assignPlot(player.id)
AssignStep ==
  \E playerId \in Joiners :
    \E r \in {AssignPlot([plots |-> plots, playerToPlot |-> playerToPlot], playerId)} :
      /\ plots' = r.pm.plots
      /\ playerToPlot' = r.pm.playerToPlot
      /\ lastOp' = PlotOp("assignPlot", playerId, r.plot)
      /\ UNCHANGED <<games, pieceIdCounter, now, steps, controllerStates, inputLog>>

\* a player leaves the world: releasePlot(player.id)
ReleaseStep ==
  \E playerId \in Joiners \cup {Residents[i] : i \in 1..MaxResidents} :
    \E pm \in {ReleasePlot([plots |-> plots, playerToPlot |-> playerToPlot], playerId)} :
      /\ plots' = pm.plots
      /\ playerToPlot' = pm.playerToPlot
      /\ lastOp' = PlotOp("releasePlot", playerId, -1)
      /\ UNCHANGED <<games, pieceIdCounter, now, steps, controllerStates, inputLog>>

NextPlots == AssignStep \/ ReleaseStep

SpecPlots == InitPlotsJoined /\ [][NextPlots]_vars

----------------------------------------------------------------------------
(* Properties *)

\* the TetrisState of instance "A"
StateA == games["A"].state

\* a flash is pending: lineClearFxRows is a non-empty array
FlashPending(s) == Len(s.lineClearFxRows) > 0

\* the call was a reset: the reset action or GameInstance.reset()
IsReset(op) == op.kind = "reset" \/ (op.kind = "handleAction" /\ op.action = "reset")

\* C1: in every reachable state the board has exactly 20 rows, each with exactly
\* 10 cells, whatever calls of handleAction and tick (which runs finalizeLineClear)
\* were made
C1_BoardShape ==
  /\ DOMAIN StateA.board = 1..20
  /\ \A y \in 1..20 : DOMAIN StateA.board[y] = 1..10

\* a tick has finalized a line clear: rows were removed and the board refilled
C1_Witness ==
  /\ lastOp.kind = "tick"
  /\ StateA.lines > 0
  /\ ~FlashPending(StateA)
  /\ \E y \in 1..20, x \in 1..10 : StateA.board[y][x] # 0

\* C2: while the game is RUNNING with no flash pending and an active piece, every
\* cell of the piece lies in columns 0..9 at a row >= 0, and none of its cells
\* inside the playable rows coincides with a non-empty board cell
C2_NoOverlap ==
  (StateA.gameStatus = "RUNNING" /\ ~FlashPending(StateA) /\ StateA.activePiece # Null)
    => \A c \in GetPieceCells(StateA.activePiece) :
         /\ c[1] >= 0
         /\ c[1] <= 9
         /\ c[2] >= 0
         /\ (c[2] <= 19 => StateA.board[c[2] + 1][c[1] + 1] = 0)

\* a move or a tick left the active piece inside the playable rows, with a filled
\* board cell directly to the left or to the right of one of its cells
C2_Witness ==
  /\ StateA.gameStatus = "RUNNING"
  /\ ~FlashPending(StateA)
  /\ StateA.activePiece # Null
  /\ lastOp.kind \in {"handleAction", "tick"}
  /\ \E c \in GetPieceCells(StateA.activePiece) :
       /\ c[2] <= 19
       /\ \E x \in {c[1] - 1, c[1] + 1} :
            x >= 0 /\ x <= 9 /\ StateA.board[c[2] + 1][x + 1] # 0

\* C3: two runs started from the same seed in the same process, receiving the
\* same calls at the same times, are in field-for-field identical states, the
\* ids of the active and the next piece included
C3_SameSeedSameState == games["A"] = games["B"]

\* C3 without the piece ids: the two runs agree on every other field
C3_SameUpToIds ==
  LET NoIds(g) == [g EXCEPT !.state.activePiece.id = 0, !.state.nextPiece.id = 0]
  IN  NoIds(games["A"]) = NoIds(games["B"])

\* C4: whatever is called on instance A, instance B is in the state it is in when
\* run alone with the same seed and the same calls (the instance S)
C4_Isolation == games["B"] = games["S"]

\* C5: whenever a line-clear flash is pending (lineClearFxRows non-empty), whether
\* a hard drop or a gravity lock started it, there is no active piece
C5_NoActivePieceInFlash == FlashPending(StateA) => StateA.activePiece = Null

\* a hard drop started the flash: here the active piece is null
C5_HardDropFlash ==
  /\ FlashPending(StateA)
  /\ lastOp.kind = "handleAction"
  /\ lastOp.action = "hardDrop"
  /\ StateA.activePiece = Null

\* the fields C6 names: board, active and next piece, score, lines, level, status,
\* RNG state and combo counter
FrozenFields(s) ==
  <<s.board, s.activePiece, s.nextPiece, s.score, s.lines, s.level, s.gameStatus,
    s.rngState, s.comboCount>>

\* C6: while a flash is pending and the clock is before its expiry, no call but a
\* reset (so no left, right, rotate or hardDrop action and no tick) changes the
\* board, the active or next piece, score, lines, level, status, RNG state or
\* combo counter
C6_FlashFreeze ==
  [][(FlashPending(StateA) /\ now' < StateA.lineClearFxUntilMs /\ ~IsReset(lastOp'))
       => FrozenFields(StateA') = FrozenFields(StateA)]_vars

\* a move was requested or a tick ran while the flash was pending, before expiry
C6_Witness ==
  /\ FlashPending(StateA)
  /\ now < StateA.lineClearFxUntilMs
  /\ games["A"].gameStarted
  /\ StateA.gameStatus = "RUNNING"
  /\ \/ lastOp.kind = "handleAction" /\ lastOp.action \in {"left", "right", "rotate"}
     \/ lastOp.kind = "tick" /\ StateA.activePiece = Null

\* C7: once the status is GAME_OVER no call but a reset changes it: the status
\* stays GAME_OVER, the board, score, lines and level keep their values and the
\* active piece stays null
C7_GameOverTerminal ==
  [][(StateA.gameStatus = "GAME_OVER" /\ ~IsReset(lastOp'))
       => /\ StateA'.gameStatus = "GAME_OVER"
          /\ StateA'.board = StateA.board
          /\ StateA'.activePiece = Null
          /\ StateA'.score = StateA.score
          /\ StateA'.lines = StateA.lines
          /\ StateA'.level = StateA.level]_vars

\* C8: row 19 is empty whenever the game is RUNNING with an active piece; and
\* when a lock that completed no row has left a cell in row 19 (row 19 occupied,
\* no flash pending) the game is over and no piece was spawned
C8_TopRow ==
  /\ (StateA.gameStatus = "RUNNING" /\ StateA.activePiece # Null)
       => \A x \in 1..10 : StateA.board[20][x] = 0
  /\ ((\E x \in 1..10 : StateA.board[20][x] # 0) /\ ~FlashPending(StateA))
       => (StateA.gameStatus = "GAME_OVER" /\ StateA.activePiece = Null)

\* a lock without a full row has left a cell in row 19
C8_Witness ==
  /\ \E x \in 1..10 : StateA.board[20][x] # 0
  /\ ~FlashPending(StateA)
  /\ StateA.lastLinesCleared = 0
  /\ StateA.gameStatus = "GAME_OVER"
  /\ lastOp.kind \in {"handleAction", "tick"}

\* C9 (its case never arises): a piece spawned by spawnNextPiece never collides
C9_SpawnedPieceIsFree ==
  (StateA.activePiece # Null /\ StateA.activePiece.y = SPAWN_Y
     /\ StateA.activePiece.x = SPAWN_X /\ StateA.activePiece.rotation = 0)
    => ~Collides(StateA.board, StateA.activePiece)

\* C10: a lock that completes n rows (n = 1..4), with no earlier clear inside the
\* combo window, adds 100, 300, 500, 800 points and n lines
C10_BaseScore ==
  [][\A n \in 1..4 :
       (/\ ~FlashPending(StateA)
        /\ Len(StateA'.lineClearFxRows) = n
        /\ ~IsReset(lastOp')
        /\ (StateA.lastLineClearTimeMs = 0 \/ now' - StateA.lastLineClearTimeMs > 5000))
         => /\ StateA'.score = StateA.score + <<100, 300, 500, 800>>[n]
            /\ StateA'.lines = StateA.lines + n]_vars

\* a first clear of four rows has been scored
C10_Witness ==
  /\ Len(StateA.lineClearFxRows) = 4
  /\ StateA.score = 800
  /\ StateA.lines = 4

\* the base points of a clear of n rows, as the specification states them
BasePoints(n) == <<100, 300, 500, 800>>[n]

\* C11: every clearing lock stores its timestamp; a clear less than 5000 ms after
\* the previous clear (at any timestamp t >= 0) raises the combo counter by one and
\* awards base x (1 + counter x 0.1); a clear more than 5000 ms after the previous
\* one resets the counter to 0 and awards the base points
C11_ComboWindow ==
  [][lastOp'.kind = "applyLineClearScoring"
       => /\ StateA'.lastLineClearTimeMs = now'
          /\ (StateA.lines > 0 /\ now' - now < 5000)
               => /\ StateA'.comboCount = StateA.comboCount + 1
                  /\ StateA'.score = StateA.score
                       + (BasePoints(lastOp'.delta) * (10 + StateA'.comboCount)) \div 10
          /\ (StateA.lines > 0 /\ now' - now > 5000)
               => /\ StateA'.comboCount = 0
                  /\ StateA'.score = StateA.score + BasePoints(lastOp'.delta)]_vars

\* C11 restricted to previous clears at a timestamp > 0
C11_ComboWindowAfterPositive ==
  [][(lastOp'.kind = "applyLineClearScoring" /\ now > 0)
       => /\ StateA'.lastLineClearTimeMs = now'
          /\ (StateA.lines > 0 /\ now' - now < 5000)
               => /\ StateA'.comboCount = StateA.comboCount + 1
                  /\ StateA'.score = StateA.score
                       + (BasePoints(lastOp'.delta) * (10 + StateA'.comboCount)) \div 10
          /\ (StateA.lines > 0 /\ now' - now > 5000)
               => /\ StateA'.comboCount = 0
                  /\ StateA'.score = StateA.score + BasePoints(lastOp'.delta)]_vars

\* a third clear inside the window of the second: the counter has reached 2
C11_ThirdInWindow ==
  /\ lastOp.kind = "applyLineClearScoring"
  /\ StateA.comboCount = 2

\* the wall-kick offsets in the order the specification lists them
KickOrder == <<<<0, 0>>, <<1, 0>>, <<-1, 0>>, <<2, 0>>, <<-2, 0>>, <<0, -1>>>>

\* the piece p one rotation phase further (mod 4), shifted by the offset o
RotatedAt(p, o) ==
  [p EXCEPT !.rotation = (p.rotation + 1) % 4, !.x = p.x + o[1], !.y = p.y + o[2]]

\* C12: a rotate action on a RUNNING game with an active piece and no flash puts
\* the piece one rotation phase further (mod 4) at the first offset, in the order
\* (0,0), (1,0), (-1,0), (2,0), (-2,0), (0,-1), at which the rotated piece does not
\* collide; when every offset collides the piece stays as it is
C12_FirstFreeKick ==
  [][(/\ lastOp'.kind = "handleAction"
      /\ lastOp'.action = "rotate"
      /\ ~FlashPending(StateA)
      /\ StateA.gameStatus = "RUNNING"
      /\ StateA.activePiece # Null)
       => LET free == {i \in 1..6 :
                         ~Collides(StateA.board, RotatedAt(StateA.activePiece, KickOrder[i]))}
          IN  IF free = {} THEN StateA'.activePiece = StateA.activePiece
              ELSE \E i \in free :
                     /\ \A j \in free : i <= j
                     /\ StateA'.activePiece = RotatedAt(StateA.activePiece, KickOrder[i])]_vars

\* the vertical I piece over column 0 (x = -1) was rotated as the first call: in
\* place the horizontal piece would leave the board, so it was kicked by (1,0)
C12_Witness ==
  /\ steps = 1
  /\ lastOp.kind = "handleAction"
  /\ lastOp.action = "rotate"
  /\ StateA.activePiece.type = 1
  /\ StateA.activePiece.rotation = 2
  /\ StateA.activePiece.x = 0
  /\ Collides(StateA.board, [StateA.activePiece EXCEPT !.x = -1])

\* the move the call op asks for would be rejected in the state s: the candidate
\* of tryMove collides, or every wall-kick candidate of tryRotate collides
Rejected(s, op) ==
  /\ op.kind = "handleAction"
  /\ ~FlashPending(s)
  /\ s.gameStatus = "RUNNING"
  /\ s.activePiece # Null
  /\ \/ op.action = "left" /\ Collides(s.board, [s.activePiece EXCEPT !.x = @ - 1])
     \/ op.action = "right" /\ Collides(s.board, [s.activePiece EXCEPT !.x = @ + 1])
     \/ /\ op.action = "rotate"
        /\ \A i \in 1..6 : Collides(s.board, RotatedAt(s.activePiece, KickOrder[i]))

\* C13: a left, right or rotate action whose movement is rejected changes no field
\* of the game state (handleAction stores its soft-drop flag, nothing else): piece
\* position and rotation, board, score, accumulator and status stay as they were
C13_RejectedMoveNoEffect ==
  [][Rejected(StateA, lastOp')
       => games'["A"] = [games["A"] EXCEPT !.state.softDropActive = lastOp'.soft]]_vars

\* a rotation was rejected: the piece is enclosed, every wall-kick candidate collides
C13_Witness ==
  /\ lastOp.action = "rotate"
  /\ Rejected(StateA, lastOp)

\* a move to the left was rejected: the vertical I piece over column 0 is where
\* it was after the first call
C13_LeftRejected ==
  /\ steps = 1
  /\ lastOp.action = "left"
  /\ Rejected(StateA, lastOp)
  /\ StateA.activePiece.type = 1
  /\ StateA.activePiece.rotation = 1
  /\ StateA.activePiece.x = -1

\* the call op is a hardDrop action that handleAction hands to hardDrop in state s
HardDropApplies(s, op) ==
  /\ op.kind = "handleAction"
  /\ op.action = "hardDrop"
  /\ ~FlashPending(s)
  /\ s.gameStatus = "RUNNING"
  /\ s.activePiece # Null

\* the piece of s translated straight down as far as it goes without colliding
Landed(s) ==
  LET d == CHOOSE d \in 0..(BOARD_HEIGHT + 4) :
             /\ \A k \in 0..d : ~Collides(s.board, [s.activePiece EXCEPT !.y = @ - k])
             /\ Collides(s.board, [s.activePiece EXCEPT !.y = @ - (d + 1)])
  IN  [s.activePiece EXCEPT !.y = @ - d]

\* the cells of the piece p that lie on the grid
GridCells(p) ==
  {c \in GetPieceCells(p) : c[1] >= 0 /\ c[1] <= 9 /\ c[2] >= 0 /\ c[2] <= 19}

\* the board holding the kind type at the given cells and unchanged elsewhere
BoardWith(board, cells, type) ==
  [y \in 1..20 |-> [x \in 1..10 |->
     IF <<x - 1, y - 1>> \in cells THEN type ELSE board[y][x]]]

\* C14: a hardDrop on a RUNNING state with an active piece takes the piece to the
\* lowest position straight below and locks it inside the call: afterwards the
\* cells of the landed piece hold its kind on the board (nothing else on the board
\* changes), and the active piece is
\* a fresh piece at the spawn anchor, or null with a flash pending or GAME_OVER
C14_HardDropLocks ==
  [][HardDropApplies(StateA, lastOp')
       => /\ StateA'.board
               = BoardWith(StateA.board, GridCells(Landed(StateA)), StateA.activePiece.type)
          /\ StateA'.activePiece.id # StateA.activePiece.id
          /\ \/ /\ StateA'.activePiece = Null
                /\ FlashPending(StateA') \/ StateA'.gameStatus = "GAME_OVER"
             \/ /\ StateA'.activePiece.id > StateA.activePiece.id
                /\ StateA'.activePiece.x = 3
                /\ StateA'.activePiece.y = 20
                /\ StateA'.activePiece.rotation = 0
                /\ StateA'.gameStatus = "RUNNING"]_vars

\* the first piece of a game was hard-dropped onto the empty board: its four
\* cells lie in the two bottom rows and the next piece stands at the spawn anchor
C14_Witness ==
  /\ steps = 1
  /\ lastOp.kind = "handleAction"
  /\ lastOp.action = "hardDrop"
  /\ StateA.activePiece # Null
  /\ StateA.activePiece.y = 20
  /\ Cardinality({c \in (1..20) \X (1..10) : StateA.board[c[1]][c[2]] # 0}) = 4
  /\ \A y \in 3..20, x \in 1..10 : StateA.board[y][x] = 0

\* number of non-empty cells of the board
FilledCells(board) ==
  Cardinality({c \in (1..20) \X (1..10) : board[c[1]][c[2]] # 0})

\* the step locks the active piece of a state without a pending flash: the call
\* is no reset and the piece that was active is no longer the active piece
Locks ==
  /\ ~FlashPending(StateA)
  /\ StateA.gameStatus = "RUNNING"
  /\ StateA.activePiece # Null
  /\ ~IsReset(lastOp')
  /\ StateA'.activePiece.id # StateA.activePiece.id

\* C15: a lock writes the kind of the piece into each of the 4 grid positions the
\* piece occupies where it came to rest, so that right after the lock (the full
\* rows are still in place) the board has exactly 4 more non-empty cells
C15_LockMergesFourCells ==
  [][Locks
       => /\ \A c \in GetPieceCells(Landed(StateA)) :
               /\ c[2] <= 19
               /\ StateA'.board[c[2] + 1][c[1] + 1] = StateA.activePiece.type
          /\ FilledCells(StateA'.board) = FilledCells(StateA.board) + 4]_vars

\* C15 for the pieces that come to rest entirely below row 20
C15_LockMergesGridCells ==
  [][(Locks /\ GridCells(Landed(StateA)) = GetPieceCells(Landed(StateA)))
       => /\ \A c \in GetPieceCells(Landed(StateA)) :
               StateA'.board[c[2] + 1][c[1] + 1] = StateA.activePiece.type
          /\ FilledCells(StateA'.board) = FilledCells(StateA.board) + 4]_vars

\* the board made of the rows of board whose grid index is not in R, in their
\* order, followed by empty rows up to 20 rows
WithoutRows(board, R) ==
  LET Kept(y) == y \notin R
      idx == SelectSeq([i \in 1..20 |-> i - 1], Kept)
  IN  [i \in 1..20 |-> IF i <= Len(idx) THEN board[idx[i] + 1] ELSE [x \in 1..10 |-> 0]]

\* the set of rows recorded in the pending line clear of s
PendingRows(s) == {s.lineClearFxRows[i] : i \in 1..Len(s.lineClearFxRows)}

\* the step is a tick that finalizes the pending line clear of instance "A"
Finalizes ==
  /\ FlashPending(StateA)
  /\ games["A"].gameStarted
  /\ lastOp'.kind = "tick"
  /\ now' >= StateA.lineClearFxUntilMs

\* no piece locks in the rest of the tick: the piece active before the tick or
\* spawned by it is still the active piece, or nothing was spawned
NoLockInTick ==
  IF StateA.activePiece # Null THEN StateA'.activePiece.id = StateA.activePiece.id
  ELSE \/ pieceIdCounter' = pieceIdCounter
       \/ StateA'.activePiece.id = pieceIdCounter[1] + 1

\* C16: when a tick finalizes a pending line clear of the rows R (and locks no
\* piece afterwards), the board consists of the old rows not in R in their order
\* from the bottom, followed by |R| empty rows; the rows below the lowest row of
\* R are unchanged; the pending record is cleared (no rows, expiry 0)
C16_FinalizeRemovesRows ==
  [][(Finalizes /\ NoLockInTick)
       => /\ StateA'.board = WithoutRows(StateA.board, PendingRows(StateA))
          /\ \A y \in 0..19 :
               (\A r \in PendingRows(StateA) : y < r)
                 => StateA'.board[y + 1] = StateA.board[y + 1]
          /\ \A y \in (20 - Cardinality(PendingRows(StateA)))..19 :
               \A x \in 1..10 : StateA'.board[y + 1][x] = 0
          /\ StateA'.lineClearFxRows = <<>>
          /\ StateA'.lineClearFxUntilMs = 0]_vars

\* a tick has finalized a clear of four rows under a stack that moved down
C16_Witness ==
  /\ lastOp.kind = "tick"
  /\ ~FlashPending(StateA)
  /\ StateA.lastLinesCleared = 4
  /\ StateA.lines = 4
  /\ \E x \in 1..10 : StateA.board[1][x] # 0

\* C17: finalizeLineClear applied to a state without a pending line clear returns
\* the state unchanged, and applying it twice to any state gives the same state
\* as applying it once
C17_FinalizeIdempotent ==
  /\ ~FlashPending(StateA) => FinalizeLineClear(StateA) = StateA
  /\ FinalizeLineClear(FinalizeLineClear(StateA)) = FinalizeLineClear(StateA)

\* a line clear is pending after a lock: the first finalizeLineClear changes the
\* board and clears the record, so the second one finds nothing pending
C17_Witness ==
  /\ FlashPending(StateA)
  /\ lastOp.kind \in {"handleAction", "tick"}
  /\ FinalizeLineClear(StateA).board # StateA.board
  /\ ~FlashPending(FinalizeLineClear(StateA))

\* the grid indices of the rows of board without an empty cell
FullRowSet(board) == {y \in 0..19 : \A x \in 1..10 : board[y + 1][x] # 0}

WithoutIds(g) == [g EXCEPT !.state.activePiece.id = 0, !.state.nextPiece.id = 0]

\* C19: a reset (the reset action or GameInstance.reset) takes effect in the call,
\* in every state: afterwards the instance is not started and its state is the
\* one a fresh instance constructed with the pinned seed has, piece ids aside:
\* empty board, RUNNING, score 0, level 1, lines 0, accumulator 0, base gravity
\* interval, combo cleared, nothing pending, the active piece at the spawn anchor,
\* the same piece kinds and the same RNG state
C19_ResetIsFresh ==
  [][IsReset(lastOp')
       => /\ WithoutIds(games'["A"]) = WithoutIds(NewGameInstance(StateA.seed, 0).g)
          /\ ~games'["A"].gameStarted
          /\ \A y \in 1..20, x \in 1..10 : StateA'.board[y][x] = 0
          /\ StateA'.gameStatus = "RUNNING"
          /\ StateA'.score = 0
          /\ StateA'.level = 1
          /\ StateA'.lines = 0
          /\ StateA'.gravityAccumulatorMs = 0
          /\ StateA'.gravityIntervalMs = 800
          /\ StateA'.comboCount = 0
          /\ StateA'.lastLineClearTimeMs = 0
          /\ ~FlashPending(StateA')
          /\ StateA'.lineClearFxUntilMs = 0
          /\ StateA'.activePiece.x = 3
          /\ StateA'.activePiece.y = 20
          /\ StateA'.activePiece.rotation = 0
          /\ StateA'.seed = StateA.seed]_vars

\* a reset was honored after a game in which pieces had been locked
C19_Witness ==
  /\ IsReset(lastOp)
  /\ pieceIdCounter[1] > 20
  /\ StateA.score = 0
  /\ ~games["A"].gameStarted
  /\ StateA.activePiece.id = pieceIdCounter[1] - 1

\* the fields C20 names: board, active and next piece, score, lines, level, RNG state
IdleFields(s) ==
  <<s.board, s.activePiece, s.nextPiece, s.score, s.lines, s.level, s.rngState>>

\* C20: while the instance is not started, a left, right, rotate or hardDrop action
\* and a tick leave the board, the active and the next piece, score, lines, level
\* and the RNG state unchanged
C20_NotStartedFrozen ==
  [][(/\ ~games["A"].gameStarted
      /\ \/ lastOp'.kind = "tick"
         \/ /\ lastOp'.kind = "handleAction"
            /\ lastOp'.action \in {"left", "right", "rotate", "hardDrop"})
       => IdleFields(StateA') = IdleFields(StateA)]_vars

\* C20 for ticks alone: a tick on an instance that is not started changes nothing
C20_TickNotStarted ==
  [][(~games["A"].gameStarted /\ lastOp'.kind = "tick") => games' = games]_vars

\* C21: in every state level = floor(lines / 10) + 1, and no call but a reset
\* takes the level below the level of the state before
C21_LevelFromLines ==
  [][/\ StateA.level = (StateA.lines \div 10) + 1
     /\ StateA'.level = (StateA'.lines \div 10) + 1
     /\ ~IsReset(lastOp') => StateA'.level >= StateA.level]_vars

\* the tenth line was cleared: the level went up to 2
C21_Witness ==
  /\ lastOp.kind = "applyLineClearScoring"
  /\ StateA.lines >= 10
  /\ StateA.level = 2

\* clamp(800 - 60 x level, 100, 800), as the specification states it
GravityForLevel(level) ==
  IF 800 - 60 * level < 100 THEN 100
  ELSE IF 800 - 60 * level > 800 THEN 800
  ELSE 800 - 60 * level

\* C22: in every state, the initial one included, the gravity interval is
\* clamp(800 - 60 x level, 100, 800) for the current level
C22_GravityFormula == StateA.gravityIntervalMs = GravityForLevel(StateA.level)

\* C22 from the first level-up on: at level 2 and above the interval follows the formula
C22_GravityAfterLevelUp ==
  StateA.level > 1 => StateA.gravityIntervalMs = GravityForLevel(StateA.level)

\* the interval at level 1 is the base interval
C22_GravityAtLevelOne == StateA.level = 1 => StateA.gravityIntervalMs = 800

\* C23: each player's queue is a FIFO drained one action per consumeInput call.
\* The call returns and removes exactly the oldest queued action of that player,
\* or returns null and removes nothing when the queue is empty, and touches no
\* other player's queue; so the actions pushed are the actions consumed so far,
\* in push order, followed by the actions still queued: none is skipped or
\* consumed twice
C23_QueueIsFifo ==
  [][/\ \A q \in InputPlayers :
          inputLog'[q].pushed = inputLog'[q].consumed \o QueueOf(controllerStates', q)
     /\ lastOp'.kind = "consumeInput"
          => /\ IF QueueOf(controllerStates, lastOp'.player) = <<>>
                THEN /\ lastOp'.action = "none"
                     /\ QueueOf(controllerStates', lastOp'.player) = <<>>
                ELSE /\ lastOp'.action = Head(QueueOf(controllerStates, lastOp'.player))
                     /\ QueueOf(controllerStates', lastOp'.player)
                          = Tail(QueueOf(controllerStates, lastOp'.player))
             /\ \A q \in InputPlayers \ {lastOp'.player} :
                  QueueOf(controllerStates', q) = QueueOf(controllerStates, q)]_vars

\* two different actions queued by a player were consumed in push order over two
\* calls while a third one and another player's action were waiting
C23_Witness ==
  /\ lastOp.kind = "consumeInput"
  /\ inputLog[PlayerIds[1]].consumed = <<"left", "right">>
  /\ QueueOf(controllerStates, PlayerIds[1]) = <<"left">>
  /\ QueueOf(controllerStates, PlayerIds[2]) = <<"right">>

\* the longest piece sequence looked at
MaxDraws == 40

\* the seeds of the games explored
GameSeeds == Seeds \cup {h.seed : h \in Histories}

\* the states the generator goes through from state s on, n of them
RECURSIVE DrawSeq(_, _)
DrawSeqFrom(next, n) == <<next>> \o DrawSeq(next, n - 1)
DrawSeq(s, n) == IF n = 0 THEN <<>> ELSE DrawSeqFrom(RngAdvance(s), n)

\* per seed: the state of the generator after its k-th draw, and the kind drawn
DrawStates == [seed \in GameSeeds |-> DrawSeq(seed, MaxDraws)]
DrawnKinds ==
  [seed \in GameSeeds |->
     [k \in 1..MaxDraws |-> RandomPieceType(RngOutputBits(DrawStates[seed][k]))]]

\* the number of spawnNextPiece calls of the step (each creates two pieces)
SpawnsInStep == (pieceIdCounter'[1] - pieceIdCounter[1]) \div 2

\* C24: for a fixed seed the pieces follow the sequence of the generator whatever
\* the calls and their timing are.  After every call there is an n such that the
\* RNG state is the seed advanced n times, the next piece has the kind of the n-th
\* draw and the active piece the kind of the draw before; and a call that is no
\* reset advanced the RNG state exactly once per spawn it made, by nothing else
C24_PieceSequence ==
  [][\E n \in 2..MaxDraws :
       /\ StateA'.rngState = DrawStates[StateA'.seed][n]
       /\ StateA'.nextPiece.type = DrawnKinds[StateA'.seed][n]
       /\ StateA'.activePiece # Null
            => StateA'.activePiece.type = DrawnKinds[StateA'.seed][n - 1]
       /\ ~IsReset(lastOp')
            => /\ n - SpawnsInStep >= 2
               /\ StateA.rngState = DrawStates[StateA.seed][n - SpawnsInStep]]_vars

\* two pieces were locked and two spawned since construction: the generator has
\* made its fourth draw
C24_Witness ==
  /\ pieceIdCounter[1] = 6
  /\ StateA.rngState = DrawStates[StateA.seed][4]
  /\ StateA.activePiece.type = DrawnKinds[StateA.seed][3]
  /\ StateA.nextPiece.type = DrawnKinds[StateA.seed][4]

\* the state spawnNextPiece would leave when called in the current state
SpawnedNow ==
  SpawnNextPiece([s |-> StateA, rng |-> GetRngSeed(StateA), ctr |-> pieceIdCounter[1]]).s

\* the piece is the kind `type` at the spawn anchor, not rotated
AtSpawn(piece, type) ==
  /\ piece.type = type
  /\ piece.rotation = 0
  /\ piece.x = SPAWN_X
  /\ piece.y = SPAWN_Y

\* C25: the look-ahead piece is never missing and has a kind in 1..7; a spawn in
\* any reachable state makes a piece of the look-ahead's kind active at (3, 20)
\* with rotation 0 and draws a look-ahead of kind 1..7; the piece a call leaves
\* active after its one spawn has the kind the look-ahead had before the call
\* (after a hard drop it is still at the spawn anchor; a tick may have let it fall)
C25_NextPiecePromoted ==
  [][/\ StateA.nextPiece # Null /\ StateA'.nextPiece # Null
     /\ StateA'.nextPiece.type \in 1..7
     /\ AtSpawn(SpawnedNow.activePiece, StateA.nextPiece.type)
     /\ SpawnedNow.nextPiece # Null /\ SpawnedNow.nextPiece.type \in 1..7
     /\ (~IsReset(lastOp') /\ SpawnsInStep = 1 /\ StateA'.activePiece # Null)
          => /\ StateA'.activePiece.type = StateA.nextPiece.type
             /\ StateA'.activePiece.rotation = 0
             /\ StateA'.activePiece.x = SPAWN_X
             /\ StateA'.activePiece.y <= SPAWN_Y
             /\ lastOp'.kind = "handleAction" => StateA'.activePiece.y = SPAWN_Y]_vars

\* a hard drop locked the first piece and the look-ahead took its place
C25_Witness ==
  /\ lastOp.kind = "handleAction" /\ lastOp.action = "hardDrop"
  /\ pieceIdCounter[1] = 4
  /\ StateA.activePiece # Null
  /\ StateA.activePiece.id = 3
  /\ AtSpawn(StateA.activePiece, DrawnKinds[StateA.seed][2])
  /\ StateA.nextPiece.id = 4

\* the LineClearResult the lock of the step returns: the piece locks where it
\* comes to rest, at the time of the call
LockResult == MergeResult([StateA EXCEPT !.activePiece = Landed(StateA)], now')

\* the result record r agrees with what the step did to the state
ResultMatchesStep(r) ==
  /\ r.linesCleared = Len(StateA'.lineClearFxRows)
  /\ r.linesCleared = Cardinality(FullRowSet(StateA'.board))
  /\ r.linesCleared = StateA'.lines - StateA.lines
  /\ r.points = StateA'.score - StateA.score
  /\ r.linesCleared = 0
       => r.points = 0 /\ StateA'.score = StateA.score /\ StateA'.lines = StateA.lines
  /\ r.linesCleared > 0 => r.points > 0

\* C26: the line-clear result a lock returns matches the state change of the
\* call: linesCleared is the number of full rows found and the increase of
\* lines, points is the increase of score, and a lock completing no row returns
\* (0, 0) and leaves score and lines alone
C26_ResultMatchesLock == [][Locks => ResultMatchesStep(LockResult)]_vars

\* a lock that completed two rows or more has just been scored
C26_Witness ==
  /\ lastOp.kind \in {"handleAction", "tick"}
  /\ FlashPending(StateA)
  /\ StateA.lineClearFxUntilMs = now + LINE_CLEAR_FLASH_MS
  /\ StateA.lastLinesCleared >= 2
  /\ StateA.score >= SCORE_PER_LINES(2)

\* the integers of [0, 2^32) as <<hi, lo>>
IsWord32(w) == w[1] \in 0..(TwoTo16 - 1) /\ w[2] \in 0..(TwoTo16 - 1)

\* the bit pattern of the value next() returned when it left the stored RNG state
LastOutputBits == RngOutputBits(StateA.rngState)

\* C27: the stored RNG state is an integer in [0, 2^32), the value next() returned
\* for it is in [0, 1), and the piece kind derived from that value is in 1..7
C27_NextInUnitInterval ==
  /\ IsWord32(StateA.rngState)
  /\ ~RngNextIsNegative(LastOutputBits)
  /\ RandomPieceType(LastOutputBits) \in 1..7
  /\ StateA.nextPiece.type = RandomPieceType(LastOutputBits)

\* C27 without the range of next(): the state is an integer in [0, 2^32) and the
\* kind derived from the value drawn, the kind of the look-ahead piece, is in 1..7
C27_StateAndKindInRange ==
  /\ IsWord32(StateA.rngState)
  /\ RandomPieceType(LastOutputBits) \in 1..7
  /\ StateA.nextPiece.type = RandomPieceType(LastOutputBits)

\* playerToPlot maps p to a plot exactly when that plot's assignedPlayerId is p
PlotsConsistent(ps, p2p) ==
  /\ \A q \in DOMAIN p2p : p2p[q] \in 0..(PLOT_COUNT - 1) /\ ps[p2p[q] + 1] = q
  /\ \A i \in 1..PLOT_COUNT : ps[i] # "" => ps[i] \in DOMAIN p2p /\ p2p[ps[i]] = i - 1
  /\ \A i, j \in 1..PLOT_COUNT : (ps[i] # "" /\ ps[i] = ps[j]) => i = j

\* the plots other than plot i (0-based) are as before the step
OtherPlotsKept(i) == \A j \in 1..PLOT_COUNT : j # i + 1 => plots'[j] = plots[j]

\* C28: after any sequence of assignPlot and releasePlot calls each plot has at
\* most one player and each player at most one plot, playerToPlot and the
\* assignedPlayerId fields agreeing; assignPlot for a new player gives a plot
\* that was free, or returns null and changes nothing when all 8 are assigned;
\* a player who has a plot gets the same one again; releasePlot frees the
\* player's plot, and no other, for the next joiner
C28_PlotsExclusive ==
  [][/\ PlotsConsistent(plots, playerToPlot)
     /\ PlotsConsistent(plots', playerToPlot')
     /\ (lastOp'.kind = "assignPlot" /\ lastOp'.player \notin DOMAIN playerToPlot)
          => IF FreePlots(plots) = {}
             THEN lastOp'.plot = -1 /\ plots' = plots /\ playerToPlot' = playerToPlot
             ELSE /\ lastOp'.plot + 1 \in FreePlots(plots)
                  /\ plots'[lastOp'.plot + 1] = lastOp'.player
                  /\ playerToPlot'[lastOp'.player] = lastOp'.plot
                  /\ OtherPlotsKept(lastOp'.plot)
     /\ (lastOp'.kind = "assignPlot" /\ lastOp'.player \in DOMAIN playerToPlot)
          => /\ lastOp'.plot = playerToPlot[lastOp'.player]
             /\ plots' = plots /\ playerToPlot' = playerToPlot
     /\ (lastOp'.kind = "releasePlot" /\ lastOp'.player \in DOMAIN playerToPlot)
          => /\ playerToPlot[lastOp'.player] + 1 \in FreePlots(plots')
             /\ lastOp'.player \notin DOMAIN playerToPlot'
             /\ OtherPlotsKept(playerToPlot[lastOp'.player])
     /\ (lastOp'.kind = "releasePlot" /\ lastOp'.player \notin DOMAIN playerToPlot)
          => plots' = plots /\ playerToPlot' = playerToPlot]_vars

\* all 8 plots are assigned and the player who asked last was turned away
C28_Witness ==
  /\ lastOp.kind = "assignPlot"
  /\ lastOp.plot = -1
  /\ FreePlots(plots) = {}
  /\ Cardinality(DOMAIN playerToPlot) = PLOT_COUNT
  /\ lastOp.player \notin DOMAIN playerToPlot

\* the deltaMs values tickGravity is tried with: a tick, the largest clamped
\* delta, and a time far longer than a piece needs to fall through the grid
GravityDeltas == {50, 500, 100000}

\* the context tickGravity(state, deltaMs, rng, nowMs) leaves, called now
GravityOutcome(deltaMs) ==
  TickGravity([s |-> StateA, rng |-> GetRngSeed(StateA), ctr |-> pieceIdCounter[1]],
              deltaMs, now)

\* the call that left r locked the active piece
LockedIn(r) ==
  \/ r.s.activePiece = Null
  \/ r.s.activePiece.id # StateA.activePiece.id

\* the call that left r locked one piece and no more: the accumulator is 0,
\* at most 4 cells were written and one piece spawned, which is where it spawned
OneLock(r) ==
  /\ r.s.gravityAccumulatorMs = 0
  /\ r.ctr \in {pieceIdCounter[1], pieceIdCounter[1] + 2}
  /\ FilledCells(r.s.board) <= FilledCells(StateA.board) + 4
  /\ FilledCells(r.s.board) > FilledCells(StateA.board)
  /\ r.s.activePiece # Null
       => /\ r.s.activePiece.id = pieceIdCounter[1] + 1
          /\ AtSpawn(r.s.activePiece, StateA.nextPiece.type)

\* C29: one tickGravity call locks at most one piece.  In every state with a
\* falling piece, for every deltaMs, a call that locks leaves the accumulator
\* at 0 and the spawned piece unmoved, and a call with a huge deltaMs does lock;
\* the same holds for the lock a tick of the game makes
C29_OneLockPerGravityCall ==
  [][/\ (StateA.gameStatus = "RUNNING" /\ StateA.activePiece # Null)
          => \A deltaMs \in GravityDeltas :
               /\ LockedIn(GravityOutcome(deltaMs)) => OneLock(GravityOutcome(deltaMs))
               /\ deltaMs = 100000 => LockedIn(GravityOutcome(deltaMs))
     /\ (lastOp'.kind = "tick" /\ Locks)
          => /\ StateA'.gravityAccumulatorMs = 0
             /\ SpawnsInStep <= 1
             /\ StateA'.activePiece # Null
                  => AtSpawn(StateA'.activePiece, StateA.nextPiece.type)]_vars

\* a tick has just locked the falling piece by gravity: the piece it spawned is
\* at the spawn anchor and the accumulator is 0
C29_Witness ==
  /\ lastOp.kind = "tick"
  /\ StateA.gameStatus = "RUNNING"
  /\ ~FlashPending(StateA)
  /\ StateA.activePiece # Null
  /\ StateA.activePiece.id = pieceIdCounter[1] - 1
  /\ AtSpawn(StateA.activePiece, StateA.activePiece.type)
  /\ StateA.gravityAccumulatorMs = 0
  /\ StateA.softDropActive

\* the step is a tick of the started game "A" that lets the active piece fall by
\* gravity alone: soft drop is not held and the piece is still the active one
GravityTick ==
  /\ lastOp'.kind = "tick"
  /\ games["A"].gameStarted
  /\ ~FlashPending(StateA)
  /\ StateA.gameStatus = "RUNNING"
  /\ StateA.activePiece # Null
  /\ ~StateA.softDropActive
  /\ StateA'.activePiece # Null
  /\ StateA'.activePiece.id = StateA.activePiece.id

\* the rows the active piece went down in the step
RowsFallen == StateA.activePiece.y - StateA'.activePiece.y

\* C30: gravity takes one downward step per full interval of elapsed time.  The
\* accumulator holds the time fed since it was last 0, less the intervals spent:
\* a tick moves the piece down floor((accumulator + clamped delta) / interval)
\* rows and keeps the remainder, so that no piece steps down before a full
\* interval has accumulated
C30_StepPerInterval ==
  [][GravityTick
       => /\ RowsFallen = (StateA.gravityAccumulatorMs + EffectiveDeltaMs(lastOp'.delta))
                            \div StateA.gravityIntervalMs
          /\ StateA'.gravityAccumulatorMs =
               (StateA.gravityAccumulatorMs + EffectiveDeltaMs(lastOp'.delta))
                 % StateA.gravityIntervalMs]_vars

\* C30 for the ticks that find time in the accumulator
C30_StepPerIntervalAccumulating ==
  [][(GravityTick /\ StateA.gravityAccumulatorMs > 0)
       => /\ RowsFallen = (StateA.gravityAccumulatorMs + EffectiveDeltaMs(lastOp'.delta))
                            \div StateA.gravityIntervalMs
          /\ StateA'.gravityAccumulatorMs =
               (StateA.gravityAccumulatorMs + EffectiveDeltaMs(lastOp'.delta))
                 % StateA.gravityIntervalMs]_vars

\* the ticks that find the accumulator at 0 count one interval more than was fed
C30_StepAtOnceFromZero ==
  [][(GravityTick /\ StateA.gravityAccumulatorMs = 0)
       => RowsFallen = (StateA.gravityIntervalMs + EffectiveDeltaMs(lastOp'.delta))
                         \div StateA.gravityIntervalMs]_vars

\* the deltaMs values tick is tried with: negative, zero, around both ends of
\* the range, and far longer than any frame
TickDeltas == {-1000, 0, 49, 300, 501, 100000}

\* the state tick(deltaMs) leaves, called now
TickOutcome(deltaMs) == Tick(games["A"], deltaMs, pieceIdCounter[1], now).g.state

\* what the accumulator holds when tickGravity is entered
SeededAccumulator(s) ==
  IF s.gravityAccumulatorMs = 0
  THEN (IF s.softDropActive THEN 50 ELSE s.gravityIntervalMs)
  ELSE s.gravityAccumulatorMs

\* the interval tickGravity steps by
StepInterval(s) == IF s.softDropActive THEN SOFT_DROP_INTERVAL_MS ELSE s.gravityIntervalMs

\* the row the soft-drop translate of the tick takes
SoftDropRows(s) == IF s.softDropActive /\ CanMove(s, 0, -1) THEN 1 ELSE 0

\* the time gravity counted in the tick from s to t, in which nothing locked:
\* the intervals spent on steps plus what the accumulator gained
TimeFed(s, t) ==
  ((s.activePiece.y - t.activePiece.y) - SoftDropRows(s)) * StepInterval(s)
    + t.gravityAccumulatorMs - SeededAccumulator(s)

\* a started, non-flashing, running game with a piece in play
TickRuns ==
  /\ games["A"].gameStarted
  /\ ~FlashPending(StateA)
  /\ StateA.gameStatus = "RUNNING"
  /\ StateA.activePiece # Null

\* the tick leaving t locked nothing
SamePiece(t) == t.activePiece # Null /\ t.activePiece.id = StateA.activePiece.id

\* C31: whatever deltaMs is passed to tick (zero, negative, arbitrarily large),
\* the time fed to gravity is deltaMs clamped to 50..500 ms: in every state of
\* a started, non-flashing, running game a tick that locks nothing advances
\* gravity by at least 50 and at most 500 ms
C31_DeltaClamped ==
  /\ \A d \in TickDeltas :
       /\ EffectiveDeltaMs(d) \in MIN_DELTA_MS..MAX_DELTA_MS
       /\ d \in MIN_DELTA_MS..MAX_DELTA_MS => EffectiveDeltaMs(d) = d
  /\ TickRuns
       => \A d \in TickDeltas :
            SamePiece(TickOutcome(d))
              => /\ TimeFed(StateA, TickOutcome(d)) = EffectiveDeltaMs(d)
                 /\ TimeFed(StateA, TickOutcome(d)) \in 50..500

\* a tick called with 1000 ms has fed 500 ms: the piece stepped once from the
\* seeded 800 ms and 500 ms are left
C31_Witness ==
  /\ lastOp.kind = "tick" /\ lastOp.delta = 1000
  /\ TickRuns
  /\ ~StateA.softDropActive
  /\ StateA.activePiece.y = SPAWN_Y - 1
  /\ StateA.gravityAccumulatorMs = 500

\* the context the soft-drop block of tick leaves, entered in the current state
SoftDropOutcome ==
  SoftDropStep([s |-> StateA, rng |-> GetRngSeed(StateA), ctr |-> pieceIdCounter[1]])

\* C32: with the soft-drop flag held, a tick of a started running game with no
\* pending line clear attempts exactly one extra downward translate before
\* gravity, whatever the accumulator holds.  The translate moves a free piece
\* one row down and changes nothing else; blocked, it changes nothing and locks
\* nothing.  After the tick a piece that could move and is still in play is
\* lower by that row plus the rows gravity stepped, and a piece that is no
\* longer in play was locked by the gravity step, which leaves the accumulator 0
C32_SoftDropTranslate ==
  [][(TickRuns /\ StateA.softDropActive)
       => /\ SoftDropOutcome.ctr = pieceIdCounter[1]
          /\ SoftDropOutcome.s =
               IF CanMove(StateA, 0, -1)
               THEN [StateA EXCEPT !.activePiece = Moved(StateA.activePiece, 0, -1)]
               ELSE StateA
          /\ lastOp'.kind = "tick"
               => IF SamePiece(StateA')
                  THEN /\ CanMove(StateA, 0, -1)
                       /\ StateA.activePiece.y - StateA'.activePiece.y
                            = 1 + (SeededAccumulator(StateA) + EffectiveDeltaMs(lastOp'.delta))
                                    \div SOFT_DROP_INTERVAL_MS
                  ELSE StateA'.gravityAccumulatorMs = 0]_vars

\* a tick with soft drop held and nothing in the accumulator has moved the
\* piece three rows: the translate and two gravity steps of 50 ms (the 50 ms
\* the accumulator is seeded with and the 50 ms fed)
C32_Witness ==
  /\ lastOp.kind = "tick" /\ lastOp.delta = 0
  /\ TickRuns
  /\ StateA.softDropActive
  /\ StateA.activePiece.id = 1
  /\ StateA.activePiece.y = SPAWN_Y - 3
  /\ StateA.gravityAccumulatorMs = 0

\* the soft-drop flag of a player (false when the map has no entry)
FlagOf(cs, playerId) ==
  IF playerId \in DOMAIN cs THEN cs[playerId].softDropActive ELSE FALSE

\* the actions waiting in the queue of a player
Waiting(cs, playerId) == {QueueOf(cs, playerId)[i] : i \in 1..Len(QueueOf(cs, playerId))}

\* C33: softDropDown and softDropUp are never queued.  A press sets the flag of
\* the player and a release clears it, neither touching the queue; pushing any
\* other action and consuming input leave the flag as it is; so the flag
\* consumeInput returns is the one the most recent press or release set
\* (false when the player has sent none since joining), however many discrete
\* actions are still waiting
C33_SoftDropFlagNotQueued ==
  [][/\ \A q \in InputPlayers :
          Waiting(controllerStates', q) \cap {"softDropDown", "softDropUp"} = {}
     /\ lastOp'.kind = "pushAction"
          => /\ lastOp'.action = "softDropDown" => FlagOf(controllerStates', lastOp'.player)
             /\ lastOp'.action = "softDropUp" => ~FlagOf(controllerStates', lastOp'.player)
             /\ ~Queued(lastOp'.action)
                  => QueueOf(controllerStates', lastOp'.player)
                       = QueueOf(controllerStates, lastOp'.player)
             /\ Queued(lastOp'.action)
                  => FlagOf(controllerStates', lastOp'.player)
                       = FlagOf(controllerStates, lastOp'.player)
     /\ lastOp'.kind = "consumeInput"
          => /\ lastOp'.soft = FlagOf(controllerStates, lastOp'.player)
             /\ FlagOf(controllerStates', lastOp'.player)
                  = FlagOf(controllerStates, lastOp'.player)
     /\ lastOp'.kind \in {"pushAction", "consumeInput", "clearPlayer"}
          => \A q \in InputPlayers \ {lastOp'.player} :
               FlagOf(controllerStates', q) = FlagOf(controllerStates, q)]_vars

\* the press arrived after two discrete actions: the first consumeInput returns
\* the oldest action together with the pressed flag while the other one waits
C33_Witness ==
  /\ lastOp.kind = "consumeInput"
  /\ lastOp.player = PlayerIds[1]
  /\ lastOp.soft
  /\ lastOp.action = "left"
  /\ inputLog[PlayerIds[1]].pushed = <<"left", "right">>
  /\ QueueOf(controllerStates, PlayerIds[1]) = <<"right">>
  /\ FlagOf(controllerStates, PlayerIds[1])

\* one server tick of the instance: the consumed action goes to handleAction
\* first, then tick runs ("caller must call handleAction first")
AfterAction(action) ==
  HandleAction(games["A"], action, StateA.softDropActive, pieceIdCounter[1], now)
ServerTick(action, deltaMs) ==
  Tick(AfterAction(action).g, deltaMs, AfterAction(action).ctr, now).g.state

\* the flash of the started game has expired: the next tick finalizes
FlashExpired ==
  /\ games["A"].gameStarted
  /\ FlashPending(StateA)
  /\ StateA.gameStatus = "RUNNING"
  /\ now >= StateA.lineClearFxUntilMs

\* the state the rest of the finalizing tick starts from: the rows are removed
\* and a piece is in play
AfterFinalize ==
  SpawnIfNone([s |-> FinalizeLineClear(StateA), rng |-> GetRngSeed(StateA),
               ctr |-> pieceIdCounter[1]]).s

\* C34: on the first tick with now >= flash-expiry the discrete action consumed
\* for the tick is applied to the state after the rows were removed, it is not
\* dropped: when the piece in play after Finalize can move left, the server
\* tick that consumed "left" ends in a state other than the one with no action
C34_ActionAppliedAtExpiry ==
  (/\ FlashExpired
   /\ AfterFinalize.gameStatus = "RUNNING"
   /\ AfterFinalize.activePiece # Null
   /\ CanMove(AfterFinalize, -1, 0))
    => ServerTick("left", 0) # ServerTick("none", 0)

\* what the code does at expiry: handleAction still finds the rows pending and
\* returns, so the tick ends as if no action had been consumed; only reset acts
C34_ActionDroppedAtExpiry ==
  FlashExpired
    => /\ \A a \in {"left", "right", "rotate", "hardDrop"} :
            /\ AfterAction(a).g.state = StateA
            /\ ServerTick(a, 0) = ServerTick("none", 0)
       /\ ~FlashPending(AfterAction("reset").g.state)

\* the step is a tick of the started game that a running flash did not cut short
TickRanThrough ==
  /\ lastOp'.kind = "tick"
  /\ games["A"].gameStarted
  /\ ~(FlashPending(StateA) /\ now' < StateA.lineClearFxUntilMs)

C36_NoFullRowOutsideFlash ==
  /\ ~FlashPending(StateA) => FullRowSet(StateA.board) = {}
  /\ FlashPending(StateA) => FullRowSet(StateA.board) = PendingRows(StateA)

\* a tick has finalized a clear of two rows or more: they are counted, the
\* record is gone and the cells that were above them are still on the board
C36_Witness ==
  /\ lastOp.kind = "tick"
  /\ ~FlashPending(StateA)
  /\ StateA.lines >= 2
  /\ StateA.lastLinesCleared >= 2
  /\ FilledCells(StateA.board) > 0

\* C37: GAME_OVER is never set while a pending line clear exists: after a
\* clearing lock the game-over decision waits for the board from which the
\* full rows were removed
C37_NoGameOverInFlash == ~(FlashPending(StateA) /\ StateA.gameStatus = "GAME_OVER")

\* C37 for the locks of a hard drop: a call of handleAction that leaves a line
\* clear pending leaves the game RUNNING
C37_HardDropLeavesRunning ==
  [][(lastOp'.kind = "handleAction" /\ ~IsReset(lastOp') /\ StateA.gameStatus = "RUNNING"
        /\ FlashPending(StateA'))
       => StateA'.gameStatus = "RUNNING"]_vars

\* a tick sets GAME_OVER in a flash only in the step that locked by gravity:
\* its spawn attempt tests the top row of the board that still has the full rows
C37_GameOverByTickOnFullBoard ==
  [][(StateA.gameStatus = "RUNNING" /\ FlashPending(StateA')
        /\ StateA'.gameStatus = "GAME_OVER")
       => /\ lastOp'.kind = "tick"
          /\ ~FlashPending(StateA) \/ now' >= StateA.lineClearFxUntilMs
          /\ StateA'.lineClearFxUntilMs = now' + LINE_CLEAR_FLASH_MS
          /\ StackReachedTop(StateA'.board)
          /\ FullRowSet(StateA'.board) = PendingRows(StateA')]_vars

----------------------------------------------------------------------------
(* The tick timer.  Beyond the calls the exploration counts, the timer of the
   world loop keeps calling tick while a line clear of the started game is
   pending, Date.now() having advanced by the period each time. *)

\* the time between two ticks of the timer
TimerPeriod == 100

\* the timer has a tick to make; it is followed until a tick has run at or
\* after the expiry of the pending line clear.  tick is total and moves the
\* clock, so this is when TimerTick is enabled
TimerDue ==
  /\ games["A"].gameStarted
  /\ FlashPending(StateA)
  /\ ~(lastOp.kind = "tick" /\ now >= StateA.lineClearFxUntilMs)

TimerTick ==
  /\ TimerDue
  /\ now' = now + TimerPeriod
  /\ UNCHANGED <<steps, serverVars>>
  /\ \E d \in Deltas :
       /\ lastOp' = TickOp(d)
       /\ \E w \in {Do([games |-> games, ctr |-> pieceIdCounter], "A", TickOp(d),
                       now + TimerPeriod)} :
            /\ games' = w.games
            /\ pieceIdCounter' = w.ctr

NextTimer == Step(<<"A">>) \/ TimerTick

\* the timer never stops firing: weak fairness of TimerTick, WF_vars(TimerTick),
\* with its enabling condition written out
TimerFairness == []<>(~TimerDue) \/ []<><<TimerTick>>_vars

SpecTimer == Init /\ [][NextTimer]_vars /\ TimerFairness

\* C38: a pending line clear does not last forever.  For a started instance
\* whose ticks keep coming with an advancing clock, every state with a pending
\* line clear is followed by a state with none, whatever calls arrive meanwhile
\* and also when the status is GAME_OVER
C38_FlashEnds ==
  (games["A"].gameStarted /\ FlashPending(StateA)) ~> ~FlashPending(StateA)

\* the second tick of the timer has finalized the line clear of a game that
\* was over when the rows were found full
C38_Witness ==
  /\ lastOp.kind = "tick"
  /\ now = StartTime + 2 * TimerPeriod
  /\ games["A"].gameStarted
  /\ StateA.gameStatus = "GAME_OVER"
  /\ ~FlashPending(StateA)
  /\ StateA.lines >= 1
  /\ StateA.lastLinesCleared >= 1

----------------------------------------------------------------------------
(* A started game left alone: no action arrives, the timer calls tick with its
   fixed period as deltaMs, and Date.now() advances by the period. *)

\* the tick periods looked at (one per run) and the time a run is followed
IdleDeltas == {50, 500}
IdleHorizon == 400000

InitIdle ==
  \E seed \in Seeds :
    \E w \in {Replay(NewWorld(seed), <<"start">>)} :
      /\ games = w.games
      /\ pieceIdCounter = w.ctr
      /\ now = StartTime
      /\ lastOp = NoOp
      /\ steps = 0
      /\ ServerStart

\* the run is still followed; tick is total and moves the clock, so this is
\* when IdleTick is enabled
IdleDue == now < IdleHorizon

IdleTick ==
  /\ IdleDue
  /\ UNCHANGED <<steps, serverVars>>
  /\ \E d \in IdleDeltas :
       /\ lastOp.kind = "tick" => d = lastOp.delta
       /\ lastOp' = TickOp(d)
       /\ now' = now + d
       /\ \E w \in {Do([games |-> games, ctr |-> pieceIdCounter], "A", TickOp(d), now + d)} :
            /\ games' = w.games
            /\ pieceIdCounter' = w.ctr

NextIdle == IdleTick

\* the timer never stops firing: weak fairness of IdleTick, WF_vars(IdleTick),
\* with its enabling condition written out
IdleFairness == []<>(~IdleDue) \/ []<><<IdleTick>>_vars

SpecIdle == InitIdle /\ [][NextIdle]_vars /\ IdleFairness

\* C39: a started game that receives no actions terminates.  Under repeated
\* ticks with positive elapsed time and no input the instance eventually
\* reaches GAME_OVER and stays there
C39_IdleGameEnds == <>[](StateA.gameStatus = "GAME_OVER")

\* the game is over: the pieces are stacked in the spawn columns 3..6 up to the
\* top playable row and nothing was ever cleared
C39_Witness ==
  /\ lastOp.kind = "tick"
  /\ StateA.gameStatus = "GAME_OVER"
  /\ StateA.activePiece = Null
  /\ StateA.lines = 0
  /\ StackReachedTop(StateA.board)
  /\ \A y \in 1..BOARD_HEIGHT : \A x \in 1..BOARD_WIDTH :
       StateA.board[y][x] # 0 => x \in 4..7

----------------------------------------------------------------------------
(* The spawn anchor and the ways a game ends. *)

\* createPiece(type, SPAWN_X, SPAWN_Y) with rotation 0, as spawnNextPiece places it
SpawnAnchorPiece(type) ==
  CreatePiece(0, type, SPAWN_X, SPAWN_Y)

\* all cells of the piece are above the playable rows, inside the columns
InSpawnZone(piece) ==
  \A c \in GetPieceCells(piece) :
    c[1] >= 0 /\ c[1] < BOARD_WIDTH /\ c[2] >= BOARD_HEIGHT

\* no kind of piece collides with the board at the spawn anchor
SpawnAnchorFree(board) ==
  \A type \in 1..7 :
    /\ InSpawnZone(SpawnAnchorPiece(type))
    /\ ~Collides(board, SpawnAnchorPiece(type))

\* C40: a piece at the spawn anchor (3, 20) with rotation 0 never collides with
\* a reachable board, all its cells being at rows >= BOARD_HEIGHT in columns
\* 0..9; so every step that sets GAME_OVER leaves a cell in the top playable
\* row, and the piece a running game has at the anchor is never the cause
C40_SpawnNeverCollides ==
  [][/\ SpawnAnchorFree(StateA.board)
     /\ SpawnAnchorFree(StateA'.board)
     /\ (StateA.gameStatus = "RUNNING" /\ StateA'.gameStatus = "GAME_OVER")
          => StackReachedTop(StateA'.board)
     /\ (StateA'.gameStatus = "RUNNING" /\ StateA'.activePiece # Null
           /\ AtSpawn(StateA'.activePiece, StateA'.activePiece.type))
          => ~Collides(StateA'.board, StateA'.activePiece)]_vars

\* the game has ended with the top playable row filled under the spawn columns,
\* where a collision at the anchor would be nearest, and no kind collides there
C40_Witness ==
  /\ steps >= 1
  /\ lastOp.kind \in {"handleAction", "tick"}
  /\ StateA.gameStatus = "GAME_OVER"
  /\ \E x \in (SPAWN_X + 1)..(SPAWN_X + 4) : StateA.board[BOARD_HEIGHT][x] # 0
  /\ SpawnAnchorFree(StateA.board)

====
